---- MODULE Spec2Model ----
(***************************************************************************)
(* State-machine model of the SGP4 worker pool (lib/worker-pool.ts), the   *)
(* worker threads it drives (lib/worker.ts, lib/worker-native.ts), the     *)
(* geophysical-constants state of the two propagation engines, the range   *)
(* loops, one task from its message to its reply, the module objects       *)
(* (lib/index.ts), the native server's propagate endpoint and the batch    *)
(* structures (sgp4_batch.h, sgp4_simd.c).                                 *)
(***************************************************************************)
EXTENDS Integers, Sequences, FiniteSets, TLC

\* ------------------------------------------------------------------------
\* Bounds of the model
\* ------------------------------------------------------------------------
MaxPoolSize == 2
MaxWorkers == 3
MaxInitCalls == 2
MaxTasks == 3
MaxShutdowns == 1
MaxCrashes == 1
MaxGeoTasks == 3
MaxSteps == 2
Precision == 3
FracBits == 3
MaxUnits == 16
MaxStates == 20
MaxModuleCalls == 3
IntBits == 6
SizeBits == 12
MaxSets == 2
MaxFrees == 2

WorkerIds == 1..MaxWorkers
Calls == 1..MaxTasks
UUIDs == 101..(100 + MaxTasks)
InitCalls == 1..MaxInitCalls

VARIABLES
  poolSize,       \* SGP4WorkerPool.poolSize
  initialized,    \* SGP4WorkerPool.initialized
  workers,        \* SGP4WorkerPool.workers: sequence of worker ids, array order
  busy,           \* PoolWorker.busy, per worker id
  taskQueue,      \* SGP4WorkerPool.taskQueue: sequence of PendingTask (by call)
  pendingTasks,   \* SGP4WorkerPool.pendingTasks: map taskId -> PendingTask (by call)
  taskIdOf,       \* PendingTask.task.taskId of each propagate() call (0: not made)
  future,         \* promise returned by each propagate() call:
                  \* "unborn", "pending" or "settled"
  settleCalls,    \* number of resolve/reject invocations on each call's promise
  nInit,          \* number of initialize() calls that spawned workers
  initCall,       \* state of each initialize() call's Promise.all
  initWorkers,    \* workers spawned by each initialize() call
  initPromise,    \* per worker: state of its initPromise
  shut,           \* "idle" or "terminating" (shutdown() awaiting terminate())
  shutWorkers,    \* workers terminated by the latest shutdown() call
  nShut,          \* number of shutdown() calls made
  wstate,         \* per worker thread: "none", "starting", "ready", "crashed", "exited"
  inbox,          \* per worker: tasks posted to it and not yet answered (0: terminate())
  outbox,         \* per crashed worker: answers it posted before it died
  postedTo,       \* per call: the worker its task was posted to, 0 if none
                  \* (history variable: the pool does not keep this)
  ev,             \* the last operation performed (history variable)
  acceptedInWindow, \* calls accepted while shutdown() awaited (history variable)
  variant,        \* "wasm" (lib/worker.ts) or "native" (lib/worker-native.ts)
  geophs,         \* per engine instance: its current geophysical constants
  wpc,            \* per worker thread: where it is in its message handler
  wmodel,         \* per worker thread: task.model of the task it is handling
  wfield,         \* per worker thread: next field sgp4_set_geophs will write
  wsteps,         \* per worker thread: propagation steps still to compute
  observed,       \* per worker thread: constants read by its last propagation
                  \* step of the current task, <<>> if none yet (history)
  own,            \* per worker thread: the constants as the worker's own
                  \* calls have set them (history)
  ntasks,         \* number of propagate tasks handed to the worker threads
  times,          \* task.times of a range task: et0, etf, step
  et,             \* the loop variable et of the range loop
  states,         \* the timestamps (state.et) of the states pushed so far
  n_steps,        \* n_steps of NativePropagateRange
  rpc,            \* where the range task is: "start", "loop" or "done"
  moduleInitialized, \* per module object: the `initialized` flag of its closure
  engineInits,    \* per engine instance: calls of sgp4_init / NativeInit (history)
  mev,            \* the last call made on a module object (history)
  ncalls,         \* number of calls made on module objects
  req,            \* the propagate request the server is handling
  res,            \* the response sent for it: status and error, status 0 if none
  submitted,      \* the tasks the handler passed to nativeWorkerPool.propagate()
  spc,            \* where the handler is: "received", "awaiting" or "responded"
  build,          \* how sgp4_simd.c was compiled: "neon", "avx2" or "scalar"
  batch,          \* the SGP4Batch* the caller holds: "none" (not allocated yet),
                  \* "NULL", "live" or "released" (passed to sgp4_batch_free)
  count,          \* batch->count
  capacity,       \* batch->capacity
  arrays,         \* the 13 arrays of the batch: per array, its elements
  batchResult,    \* the SGP4BatchResult* the caller holds, as batch; "partial":
                  \* a struct of which an array pointer is NULL
  frees,          \* per heap block: the number of times free() was called on it
  hazard,         \* the undefined accesses made so far (history)
  crashed,        \* the process has died
  wrote,          \* the indices sgp4_batch_set has written (history)
  nsets,          \* number of sgp4_batch_set calls made
  nfrees,         \* number of release calls made
  bev,            \* the last batch operation and its arguments (history)
  pstep           \* what the last sgp4_batch_propagate_step did (history)

vars == <<poolSize, initialized, workers, busy, taskQueue, pendingTasks, taskIdOf, future,
          settleCalls, nInit, initCall, initWorkers, initPromise, shut,
          shutWorkers, nShut, wstate, inbox, outbox, postedTo, ev,
          acceptedInWindow, variant,
          geophs, wpc, wmodel, wfield, wsteps, observed, own, ntasks,
          times, et, states, n_steps, rpc,
          moduleInitialized, engineInits, mev, ncalls,
          req, res, submitted, spc,
          build, batch, count, capacity, arrays, batchResult, frees, hazard, crashed,
          wrote, nsets, nfrees, bev, pstep>>

rangeVars == <<times, et, states, n_steps, rpc>>

modVars == <<moduleInitialized, engineInits, mev, ncalls>>

serverVars == <<req, res, submitted, spc>>

batchVars == <<build, batch, count, capacity, arrays, batchResult, frees, hazard, crashed,
               wrote, nsets, nfrees, bev, pstep>>

libVars == <<rangeVars, modVars, serverVars, batchVars, acceptedInWindow>>

geoVars == <<variant, geophs, wpc, wmodel, wfield, wsteps, observed, own, ntasks>>

poolVars == <<poolSize, initialized, workers, busy, taskQueue, pendingTasks, taskIdOf,
              future, settleCalls, nInit, initCall, initWorkers, initPromise,
              shut, shutWorkers, nShut, wstate, inbox, outbox, postedTo,
              geoVars, libVars>>

poolOnly == <<poolSize, initialized, workers, busy, taskQueue, pendingTasks, taskIdOf,
              future, settleCalls, nInit, initCall, initWorkers, initPromise,
              shut, shutWorkers, nShut, wstate, inbox, outbox, postedTo, ev,
              acceptedInWindow>>

\* ------------------------------------------------------------------------
\* Helpers
\* ------------------------------------------------------------------------
Range(s) == {s[i] : i \in DOMAIN s}

NoMsg == [type |-> "none", taskId |-> 0]
NoEv == [op |-> "none", call |-> 0, worker |-> 0, msg |-> NoMsg, posted |-> <<>>,
         settled |-> {}, outcome |-> "none"]

\* a find() that does not look at the busy flag
FindAvailable_AnyWorker(ws, b) == IF Len(ws) > 0 THEN ws[1] ELSE 0

\* a find() that looks at the first worker only
FindAvailable_FirstOnly(ws, b) == IF Len(ws) > 0 /\ ~b[ws[1]] THEN ws[1] ELSE 0

\* this.workers.find((w) => !w.busy): first worker in array order, 0 if none
FindAvailable(ws, b) ==
  IF \E i \in DOMAIN ws : ~b[ws[i]]
  THEN ws[CHOOSE i \in DOMAIN ws : ~b[ws[i]] /\ \A j \in 1..(i-1) : b[ws[j]]]
  ELSE 0

\* Map.set / Map.delete on pendingTasks (a function on a subset of UUIDs)
MapSet(m, k, v) == [x \in (DOMAIN m) \cup {k} |-> IF x = k THEN v ELSE m[x]]
MapDelete(m, k) == [x \in (DOMAIN m) \ {k} |-> m[x]]
EmptyMap == [x \in {} |-> 0]

\* a postMessage whose message never reaches the worker
PostMessage_Lost(ib, w, tid) == ib

\* worker.postMessage(task): appended to the worker's message port
PostMessage(ib, w, tid) == [ib EXCEPT ![w] = Append(@, tid)]

\* worker.terminate() has been called on the worker of port q: the thread is
\* told to stop, which is the entry 0 of its port
Stopped(q) == \E i \in DOMAIN q : q[i] = 0

\* a worker thread that goes on handling what is posted after terminate()
Deliverable_Everything(q) == q


\* the tasks of port q that reached the thread before it was told to stop;
\* what is posted after terminate() is never handled by the thread
Deliverable(q) ==
  IF Stopped(q)
  THEN SubSeq(q, 1, (CHOOSE i \in DOMAIN q : q[i] = 0 /\ \A j \in 1..(i-1) : q[j] # 0) - 1)
  ELSE q

\* ------------------------------------------------------------------------
\* Geophysical constants (sgp4_batch.h, sgp4_wrapper.c, the native addon)
\* ------------------------------------------------------------------------
Variants == {"wasm", "native"}

\* the members of SGP4Geophs / the slots of geophs[8], in the order in which
\* sgp4_set_geophs and NativeSetGeophs write them
GeophsFields == <<"j2", "j3", "j4", "ke", "qo", "so", "re", "ae">>

WGS72 == [j2 |-> "1.082616e-3", j3 |-> "-2.53881e-6", j4 |-> "-1.65597e-6",
          ke |-> "7.43669161e-2", qo |-> "120.0", so |-> "78.0",
          re |-> "6378.135", ae |-> "1.0"]

WGS84 == [j2 |-> "1.08262998905e-3", j3 |-> "-2.53215306e-6",
          j4 |-> "-1.61098761e-6", ke |-> "7.43669161331734132e-2",
          qo |-> "120.0", so |-> "78.0", re |-> "6378.137", ae |-> "1.0"]

\* task.model: the two models of data/wgs, and a name with no model file
Models == {"wgs72", "wgs84", "unknown"}

\* getWgsConstants(name): <<constants>>, or <<>> for undefined
getWgsConstants(name) ==
  IF name = "wgs72" THEN <<WGS72>>
  ELSE IF name = "wgs84" THEN <<WGS84>>
  ELSE <<>>

\* Where a worker thread's engine keeps its constants.  The WASM module is
\* instantiated by createSGP4() in every worker thread, and geophs[8] lives
\* in the linear memory of that instance: instance w for worker w.  The
\* native addon is one shared object per process, and current_geophs is a
\* file-scope static of it: instance 0 for every worker thread.
EngineIds == 0..MaxPoolSize

InstanceOf(w) == IF variant = "native" THEN 0 ELSE w

\* ------------------------------------------------------------------------
\* Initial state: the pool right after its constructor
\* ------------------------------------------------------------------------
GeoIdle ==
  /\ geophs = [i \in EngineIds |-> WGS72]
  /\ wpc = [w \in 1..MaxPoolSize |-> "loading"]
  /\ wmodel = [w \in 1..MaxPoolSize |-> "wgs72"]
  /\ wfield = [w \in 1..MaxPoolSize |-> 0]
  /\ wsteps = [w \in 1..MaxPoolSize |-> 0]
  /\ observed = [w \in 1..MaxPoolSize |-> <<>>]
  /\ own = [w \in 1..MaxPoolSize |-> WGS72]
  /\ ntasks = 0

\* no range task is being computed
RangeIdle ==
  /\ times = [et0 |-> 0, etf |-> 0, step |-> 1]
  /\ et = 0
  /\ states = <<>>
  /\ n_steps = 0
  /\ rpc = "start"

NoModEv == [op |-> "none", module |-> 0, n |-> 0, again |-> FALSE]

\* no module object has been used
ModuleIdle ==
  /\ moduleInitialized = [m \in 1..MaxPoolSize |-> FALSE]
  /\ engineInits = [i \in EngineIds |-> 0]
  /\ mev = NoModEv
  /\ ncalls = 0

NoRes == [status |-> 0, error |-> "none"]

\* the server has received no request
ServerIdle ==
  /\ req = [t0 |-> <<>>, tf |-> <<>>, step |-> <<>>, unit |-> "sec",
            wgs |-> "wgs72", input_type |-> "tle", body |-> "empty"]
  /\ res = NoRes
  /\ submitted = <<>>
  /\ spc = "responded"

\* the arrays of an SGP4Batch: the ten element arrays sgp4_batch_set fills
\* and the three derived ones; the arrays of an SGP4BatchResult
ElementArrays == {"ndot", "nddot", "bstar", "inclo", "nodeo", "ecco", "argpo", "mo",
                  "no", "epoch"}
BatchArrays == ElementArrays \cup {"a", "alta", "altp"}
ResultArrays == {"x", "y", "z", "vx", "vy", "vz"}
Blocks == BatchArrays \cup ResultArrays \cup {"SGP4Batch", "SGP4BatchResult"}

NoBev == [op |-> "none", idx |-> 0, value |-> 0]
NoStep == [done |-> FALSE, vector |-> {}, scalar |-> {}, times |-> <<>>]

\* no batch has been allocated
BatchIdle ==
  /\ build = "scalar"
  /\ batch = "none"
  /\ count = 0
  /\ capacity = 0
  /\ arrays = [a \in BatchArrays |-> <<>>]
  /\ batchResult = "none"
  /\ frees = [b \in Blocks |-> 0]
  /\ hazard = {}
  /\ crashed = FALSE
  /\ wrote = {}
  /\ nsets = 0
  /\ nfrees = 0
  /\ bev = NoBev
  /\ pstep = NoStep

LibIdle == RangeIdle /\ ModuleIdle /\ ServerIdle /\ BatchIdle

PoolInit ==
  /\ poolSize \in 1..MaxPoolSize
  /\ initialized = FALSE
  /\ workers = <<>>
  /\ busy = [w \in WorkerIds |-> FALSE]
  /\ taskQueue = <<>>
  /\ pendingTasks = EmptyMap
  /\ taskIdOf = [c \in Calls |-> 0]
  /\ future = [c \in Calls |-> "unborn"]
  /\ settleCalls = [c \in Calls |-> 0]
  /\ nInit = 0
  /\ initCall = [c \in InitCalls |-> "none"]
  /\ initWorkers = [c \in InitCalls |-> {}]
  /\ initPromise = [w \in WorkerIds |-> "none"]
  /\ shut = "idle"
  /\ shutWorkers = {}
  /\ nShut = 0
  /\ wstate = [w \in WorkerIds |-> "none"]
  /\ inbox = [w \in WorkerIds |-> <<>>]
  /\ outbox = [w \in WorkerIds |-> <<>>]
  /\ postedTo = [c \in Calls |-> 0]
  /\ ev = NoEv
  /\ acceptedInWindow = {}

\* lib/worker-pool.ts starts worker.js, the WASM worker
Init ==
  /\ variant = "wasm"
  /\ GeoIdle
  /\ PoolInit
  /\ LibIdle

\* The record kept in ev: which operation ran, on which call / worker, the
\* message it handled, the (call, worker) pairs it passed to postMessage, the
\* calls whose resolve or reject it invoked and with what.
Ev(op, call, worker, msg, posted, settled, outcome) ==
  [op |-> op, call |-> call, worker |-> worker, msg |-> msg, posted |-> posted,
   settled |-> settled, outcome |-> outcome]

\* postedTo after the postMessage calls listed in posted
Posted(pt, posted) ==
  [c \in Calls |-> IF \E i \in DOMAIN posted : posted[i].call = c
                   THEN (CHOOSE x \in Range(posted) : x.call = c).worker
                   ELSE pt[c]]

\* an operation that handles no message, posts nothing and settles nothing
Ev0(op, call, worker) == Ev(op, call, worker, NoMsg, <<>>, {}, "none")

\* a completion that settles every promise still pending
Settle_AllPending(f, cs) == [c \in Calls |-> IF f[c] = "pending" THEN "settled" ELSE f[c]]

\* Promise resolve/reject on the promises of the calls in cs
Settle(f, cs) == [c \in Calls |-> IF c \in cs THEN "settled" ELSE f[c]]

\* a worker thread that has gone (uncaught exception, or terminate())
Dead(w) == wstate[w] \in {"crashed", "exited"}

\* The continuation of shutdown() is a microtask of the event that settles
\* the last terminate() promise: it runs before any other event is handled.
ContinuationDue == shut = "terminating" /\ \A w \in shutWorkers : Dead(w)

\* ------------------------------------------------------------------------
\* SGP4WorkerPool.processQueue
\* ------------------------------------------------------------------------
\* a processQueue that forgets availableWorker.busy = true
processQueue_NotMarkedBusy(ws, b, q, p, ib) ==
  LET availableWorker == FindAvailable(ws, b) IN
  IF availableWorker = 0 \/ Len(q) = 0
  THEN [busy |-> b, taskQueue |-> q, pendingTasks |-> p, inbox |-> ib,
        posted |-> <<>>]
  ELSE LET pending == Head(q) IN
       [busy |-> b,
        taskQueue |-> Tail(q),
        pendingTasks |-> MapSet(p, taskIdOf[pending], pending),
        inbox |-> PostMessage(ib, availableWorker, taskIdOf[pending]),
        posted |-> <<[call |-> pending, worker |-> availableWorker]>>]

\* a processQueue that takes the newest queued task (pop() for shift())
processQueue_TakesLast(ws, b, q, p, ib) ==
  LET availableWorker == FindAvailable(ws, b) IN
  IF availableWorker = 0 \/ Len(q) = 0
  THEN [busy |-> b, taskQueue |-> q, pendingTasks |-> p, inbox |-> ib,
        posted |-> <<>>]
  ELSE LET pending == q[Len(q)] IN
       [busy |-> [b EXCEPT ![availableWorker] = TRUE],
        taskQueue |-> SubSeq(q, 1, Len(q) - 1),
        pendingTasks |-> MapSet(p, taskIdOf[pending], pending),
        inbox |-> PostMessage(ib, availableWorker, taskIdOf[pending]),
        posted |-> <<[call |-> pending, worker |-> availableWorker]>>]

\* a processQueue that takes the head off the queue and posts it to nobody
processQueue_DropsHead(ws, b, q, p, ib) ==
  LET availableWorker == FindAvailable(ws, b) IN
  IF availableWorker = 0 \/ Len(q) = 0
  THEN [busy |-> b, taskQueue |-> q, pendingTasks |-> p, inbox |-> ib,
        posted |-> <<>>]
  ELSE [busy |-> b, taskQueue |-> Tail(q), pendingTasks |-> p, inbox |-> ib,
        posted |-> <<>>]

processQueue(ws, b, q, p, ib) ==
  LET availableWorker == FindAvailable(ws, b) IN
  IF availableWorker = 0 \/ Len(q) = 0
  THEN [busy |-> b, taskQueue |-> q, pendingTasks |-> p, inbox |-> ib,
        posted |-> <<>>]
  ELSE LET pending == Head(q) IN
       [busy |-> [b EXCEPT ![availableWorker] = TRUE],
        taskQueue |-> Tail(q),
        pendingTasks |-> MapSet(p, taskIdOf[pending], pending),
        inbox |-> PostMessage(ib, availableWorker, taskIdOf[pending]),
        posted |-> <<[call |-> pending, worker |-> availableWorker]>>]

\* ------------------------------------------------------------------------
\* SGP4WorkerPool.propagate
\* ------------------------------------------------------------------------
NextCall ==
  CHOOSE c \in Calls : future[c] = "unborn" /\ \A d \in 1..(c-1) : future[d] # "unborn"

UsedUUIDs == {taskIdOf[c] : c \in Calls} \ {0}

\* an identifier source that repeats itself
randomUUID_Repeating == CHOOSE u \in UUIDs : \A v \in UUIDs : u <= v

\* crypto.randomUUID(): an identifier no earlier call received
randomUUID == CHOOSE u \in UUIDs \ UsedUUIDs : \A v \in UUIDs \ UsedUUIDs : u <= v

propagateThrows ==
  /\ ~ContinuationDue
  /\ ~initialized
  /\ ev' = Ev0("propagate-throw", 0, 0)
  /\ UNCHANGED poolVars

propagate ==
  /\ ~ContinuationDue
  /\ initialized
  /\ \E c \in Calls : future[c] = "unborn"
  /\ LET c == NextCall
         taskId == randomUUID
         availableWorker == FindAvailable(workers, busy)
     IN
     /\ taskIdOf' = [taskIdOf EXCEPT ![c] = taskId]
     /\ future' = [future EXCEPT ![c] = "pending"]
     /\ IF availableWorker # 0
        THEN /\ busy' = [busy EXCEPT ![availableWorker] = TRUE]
             /\ pendingTasks' = MapSet(pendingTasks, taskId, c)
             /\ inbox' = PostMessage(inbox, availableWorker, taskId)
             /\ taskQueue' = taskQueue
             /\ postedTo' = [postedTo EXCEPT ![c] = availableWorker]
             /\ ev' = Ev("propagate", c, availableWorker, NoMsg,
                         <<[call |-> c, worker |-> availableWorker]>>, {}, "none")
        ELSE /\ taskQueue' = Append(taskQueue, c)
             /\ UNCHANGED <<busy, pendingTasks, inbox, postedTo>>
             /\ ev' = Ev0("propagate", c, 0)
     /\ acceptedInWindow' = IF shut = "terminating" THEN acceptedInWindow \cup {c}
                            ELSE acceptedInWindow
  /\ UNCHANGED <<geoVars, rangeVars, modVars, serverVars, batchVars>>
  /\ UNCHANGED <<poolSize, initialized, workers, settleCalls, nInit, initCall,
                 initWorkers, initPromise, shut, shutWorkers, nShut, wstate,
                 outbox>>

\* ------------------------------------------------------------------------
\* SGP4WorkerPool.initialize
\* ------------------------------------------------------------------------
InitCallOf(w) == CHOOSE c \in InitCalls : w \in initWorkers[c]

\* a Promise.race in place of Promise.all: resolved by the first 'ready'
AllSettle_AnyReady(ic, ip) ==
  [c \in InitCalls |->
     IF ic[c] # "waiting" THEN ic[c]
     ELSE IF \E w \in initWorkers[c] : ip[w] = "rejected" THEN "rejected"
     ELSE IF \E w \in initWorkers[c] : ip[w] = "resolved" THEN "resolved"
     ELSE "waiting"]

\* Promise.all over each call's initPromises, given the new promise states
AllSettle(ic, ip) ==
  [c \in InitCalls |->
     IF ic[c] # "waiting" THEN ic[c]
     ELSE IF \E w \in initWorkers[c] : ip[w] = "rejected" THEN "rejected"
     ELSE IF \A w \in initWorkers[c] : ip[w] = "resolved" THEN "resolved"
     ELSE "waiting"]

initializeReturns ==
  /\ ~ContinuationDue
  /\ initialized
  /\ ev' = Ev0("initialize-return", 0, 0)
  /\ UNCHANGED poolVars

initialize ==
  /\ ~ContinuationDue
  /\ ~initialized
  /\ nInit < MaxInitCalls
  /\ (nInit + 1) * poolSize <= MaxWorkers
  /\ LET c == nInit + 1
         new == (nInit * poolSize + 1)..(nInit * poolSize + poolSize)
     IN
     /\ nInit' = c
     /\ workers' = workers \o [i \in 1..poolSize |-> nInit * poolSize + i]
     /\ busy' = [w \in WorkerIds |-> IF w \in new THEN FALSE ELSE busy[w]]
     /\ wstate' = [w \in WorkerIds |-> IF w \in new THEN "starting" ELSE wstate[w]]
     /\ initPromise' = [w \in WorkerIds |-> IF w \in new THEN "pending" ELSE initPromise[w]]
     /\ initWorkers' = [initWorkers EXCEPT ![c] = new]
     /\ initCall' = [initCall EXCEPT ![c] = "waiting"]
     /\ ev' = Ev0("initialize", c, 0)
  /\ UNCHANGED <<geoVars, libVars>>
  /\ UNCHANGED <<postedTo, poolSize, initialized, taskQueue, pendingTasks, taskIdOf, future,
                 settleCalls, shut, shutWorkers, nShut, inbox, outbox>>

\* setTimeout(..., 30000) of a worker whose initPromise is still pending (the
\* worker is slow, or its own initialize() failed and it left by process.exit)
initTimeout(w) ==
  /\ ~ContinuationDue
  /\ initPromise[w] = "pending"
  /\ initPromise' = [initPromise EXCEPT ![w] = "rejected"]
  /\ initCall' = AllSettle(initCall, initPromise')
  /\ ev' = Ev0("initTimeout", InitCallOf(w), w)
  /\ UNCHANGED <<geoVars, libVars>>
  /\ UNCHANGED <<postedTo, poolSize, initialized, workers, busy, taskQueue, pendingTasks, taskIdOf,
                 future, settleCalls, nInit, initWorkers, shut, shutWorkers,
                 nShut, wstate, inbox, outbox>>

\* ------------------------------------------------------------------------
\* worker.on('message') on the main thread for a message msg of worker w:
\* the messageHandler of initialize, the continuation of initialize() when
\* its Promise.all resolves, then SGP4WorkerPool.handleMessage.
\* ib is the workers' inboxes once the answered task is taken out.
\* ------------------------------------------------------------------------
handleMessage(w, msg, ib) ==
  /\ initPromise' = IF msg.type = "ready" /\ initPromise[w] = "pending"
                    THEN [initPromise EXCEPT ![w] = "resolved"] ELSE initPromise
  /\ initCall' = AllSettle(initCall, initPromise')
  /\ initialized' = (initialized \/ \E c \in InitCalls :
                        initCall[c] = "waiting" /\ initCall'[c] = "resolved")
  /\ IF msg.type = "ready" \/ msg.taskId = 0 \/ msg.taskId \notin DOMAIN pendingTasks
     THEN /\ inbox' = ib
          /\ UNCHANGED <<busy, taskQueue, pendingTasks, future, settleCalls,
                         postedTo>>
          /\ ev' = Ev("handleMessage-ignored", 0, w, msg, <<>>, {}, "none")
     ELSE LET pending == pendingTasks[msg.taskId]
              pq == processQueue(workers, [busy EXCEPT ![w] = FALSE], taskQueue,
                                 MapDelete(pendingTasks, msg.taskId), ib)
          IN
          /\ busy' = pq.busy
          /\ taskQueue' = pq.taskQueue
          /\ pendingTasks' = pq.pendingTasks
          /\ inbox' = pq.inbox
          /\ postedTo' = Posted(postedTo, pq.posted)
          /\ future' = Settle(future, {pending})
          /\ settleCalls' = [settleCalls EXCEPT ![pending] = @ + 1]
          /\ ev' = Ev("handleMessage", pending, w, msg, pq.posted, {pending},
                      IF msg.type = "propagate-result" THEN "resolve(msg)"
                      ELSE "reject(Error(msg.error))")
  /\ UNCHANGED <<poolSize, workers, taskIdOf, nInit, initWorkers, shut, shutWorkers, nShut>>
  /\ UNCHANGED <<geoVars, libVars>>

\* ------------------------------------------------------------------------
\* The worker threads (lib/worker.ts, lib/worker-native.ts), each step taken
\* together with the main thread's handling of the message it posts
\* ------------------------------------------------------------------------
\* initialize() of the worker: createSGP4, init, postMessage({type: 'ready'})
workerReady(w) ==
  /\ ~ContinuationDue
  /\ wstate[w] = "starting"
  /\ wstate' = [wstate EXCEPT ![w] = "ready"]
  /\ handleMessage(w, [type |-> "ready", taskId |-> 0], inbox)
  /\ UNCHANGED outbox

\* parentPort.on('message'): one propagate task, answered by exactly one
\* 'propagate-result' or (from the catch block) one 'error' with its taskId.
\* A worker whose sgp4 module is not yet created can only answer 'error'.
workerReply(w) ==
  /\ ~ContinuationDue
  /\ wstate[w] \in {"starting", "ready"}
  /\ Len(Deliverable(inbox[w])) > 0
  /\ \E type \in {"propagate-result", "error"} :
       /\ (wstate[w] = "starting" => type = "error")
       /\ handleMessage(w, [type |-> type, taskId |-> Head(inbox[w])],
                        [inbox EXCEPT ![w] = Tail(@)])
  /\ UNCHANGED <<wstate, outbox>>

\* an answer that a worker posted before it died, handled after its 'error'
staleReply(w) ==
  /\ ~ContinuationDue
  /\ wstate[w] = "crashed"
  /\ Len(outbox[w]) > 0
  /\ outbox' = [outbox EXCEPT ![w] = Tail(@)]
  /\ \E type \in {"propagate-result", "error"} :
       handleMessage(w, [type |-> type, taskId |-> Head(outbox[w])], inbox)
  /\ UNCHANGED wstate

\* ------------------------------------------------------------------------
\* worker 'error' event: the once('error') listener of initialize, then
\* SGP4WorkerPool.handleWorkerError.  The thread that raised it is gone: the
\* first k tasks it was posted were answered before it died (the answers are
\* still to be handled), the others are lost.
\* ------------------------------------------------------------------------
handleWorkerError(w) ==
  /\ ~ContinuationDue
  /\ wstate[w] \in {"starting", "ready"}
  /\ Cardinality({x \in WorkerIds : wstate[x] = "crashed"}) < MaxCrashes
  /\ wstate' = [wstate EXCEPT ![w] = "crashed"]
  /\ initPromise' = [initPromise EXCEPT ![w] = IF @ = "pending" THEN "rejected" ELSE @]
  /\ initCall' = AllSettle(initCall, initPromise')
  /\ \E k \in 0..Len(Deliverable(inbox[w])) :
       LET pq == processQueue(workers, [busy EXCEPT ![w] = FALSE], taskQueue,
                              pendingTasks, [inbox EXCEPT ![w] = <<>>])
       IN
       /\ outbox' = [outbox EXCEPT ![w] = SubSeq(inbox[w], 1, k)]
       /\ busy' = pq.busy
       /\ taskQueue' = pq.taskQueue
       /\ pendingTasks' = pq.pendingTasks
       /\ inbox' = pq.inbox
       /\ postedTo' = Posted(postedTo, pq.posted)
       /\ ev' = Ev("handleWorkerError", 0, w, NoMsg, pq.posted, {}, "none")
  /\ UNCHANGED <<poolSize, initialized, workers, taskIdOf, future, settleCalls, nInit,
                 initWorkers, shut, shutWorkers, nShut>>
  /\ UNCHANGED <<geoVars, libVars>>

\* ------------------------------------------------------------------------
\* SGP4WorkerPool.shutdown
\* ------------------------------------------------------------------------
\* up to the await: reject the queued tasks, empty the queue, call terminate()
\* on every worker of the array
shutdown ==
  /\ ~ContinuationDue
  /\ shut = "idle"
  /\ nShut < MaxShutdowns
  /\ nShut' = nShut + 1
  /\ future' = Settle(future, Range(taskQueue))
  /\ settleCalls' = [c \in Calls |->
                       IF c \in Range(taskQueue) THEN settleCalls[c] + 1
                       ELSE settleCalls[c]]
  /\ taskQueue' = <<>>
  /\ shut' = "terminating"
  /\ shutWorkers' = Range(workers)
  /\ ev' = Ev("shutdown", 0, 0, NoMsg, <<>>, Range(taskQueue),
              "reject(Error('Worker pool shutting down'))")
  /\ UNCHANGED <<geoVars, libVars>>
  /\ inbox' = [w \in WorkerIds |->
                 IF w \in Range(workers) /\ ~Dead(w) THEN Append(inbox[w], 0)
                 ELSE inbox[w]]
  /\ UNCHANGED <<postedTo, poolSize, initialized, workers, busy, pendingTasks, taskIdOf, nInit,
                 initCall, initWorkers, initPromise, wstate, outbox>>

\* a workerExit after which the pool takes the exited worker as ready again
workerExit_ClearsBusy(w) ==
  /\ ~ContinuationDue
  /\ shut = "terminating"
  /\ w \in shutWorkers
  /\ wstate[w] \in {"starting", "ready"}
  /\ wstate' = [wstate EXCEPT ![w] = "exited"]
  /\ inbox' = [inbox EXCEPT ![w] = <<>>]
  /\ busy' = [busy EXCEPT ![w] = FALSE]
  /\ ev' = Ev0("workerExit", 0, w)
  /\ UNCHANGED <<geoVars, libVars>>
  /\ UNCHANGED <<postedTo, poolSize, initialized, workers, taskQueue, pendingTasks, taskIdOf,
                 future, settleCalls, nInit, initCall, initWorkers, initPromise,
                 shut, shutWorkers, nShut, outbox>>

\* worker.terminate() takes effect: the thread exits; what it was posted and
\* has not answered is lost
workerExit(w) ==
  /\ ~ContinuationDue
  /\ shut = "terminating"
  /\ w \in shutWorkers
  /\ wstate[w] \in {"starting", "ready"}
  /\ wstate' = [wstate EXCEPT ![w] = "exited"]
  /\ inbox' = [inbox EXCEPT ![w] = <<>>]
  /\ ev' = Ev0("workerExit", 0, w)
  /\ UNCHANGED <<geoVars, libVars>>
  /\ UNCHANGED <<postedTo, poolSize, initialized, workers, busy, taskQueue, pendingTasks, taskIdOf,
                 future, settleCalls, nInit, initCall, initWorkers, initPromise,
                 shut, shutWorkers, nShut, outbox>>

\* a continuation of shutdown() that rejects the calls still pending before
\* it clears the pending map
shutdownComplete_RejectsPending ==
  /\ shut = "terminating"
  /\ \A w \in shutWorkers : Dead(w)
  /\ workers' = <<>>
  /\ future' = Settle(future, {pendingTasks[t] : t \in DOMAIN pendingTasks})
  /\ pendingTasks' = EmptyMap
  /\ initialized' = FALSE
  /\ shut' = "idle"
  /\ outbox' = [w \in WorkerIds |-> IF w \in shutWorkers THEN <<>> ELSE outbox[w]]
  /\ ev' = Ev("shutdownComplete", 0, 0, NoMsg, <<>>,
              {pendingTasks[t] : t \in DOMAIN pendingTasks},
              "reject(Error('Worker pool shutting down'))")
  /\ UNCHANGED <<geoVars, libVars>>
  /\ UNCHANGED <<postedTo, poolSize, busy, taskQueue, taskIdOf, settleCalls,
                 nInit, initCall, shutWorkers, initWorkers, initPromise, nShut,
                 wstate, inbox>>

\* the continuation of shutdown() after await Promise.all(terminate())
shutdownComplete ==
  /\ shut = "terminating"
  /\ \A w \in shutWorkers : Dead(w)
  /\ workers' = <<>>
  /\ pendingTasks' = EmptyMap
  /\ initialized' = FALSE
  /\ shut' = "idle"
  /\ outbox' = [w \in WorkerIds |-> IF w \in shutWorkers THEN <<>> ELSE outbox[w]]
  /\ ev' = Ev0("shutdownComplete", 0, 0)
  /\ UNCHANGED <<geoVars, libVars>>
  /\ UNCHANGED <<postedTo, poolSize, busy, taskQueue, taskIdOf, future, settleCalls,
                 nInit, initCall, shutWorkers, initWorkers, initPromise, nShut,
                 wstate, inbox>>

Next ==
  \/ propagate
  \/ propagateThrows
  \/ initialize
  \/ initializeReturns
  \/ shutdown
  \/ shutdownComplete
  \/ \E w \in WorkerIds : initTimeout(w)
  \/ \E w \in WorkerIds : workerReady(w)
  \/ \E w \in WorkerIds : workerReply(w)
  \/ \E w \in WorkerIds : staleReply(w)
  \/ \E w \in WorkerIds : handleWorkerError(w)
  \/ \E w \in WorkerIds : workerExit(w)

Spec == Init /\ [][Next]_vars

\* ------------------------------------------------------------------------
\* The engine side of the worker threads: the constants each propagation
\* uses.  Worker threads run in parallel; a step below is one store into, or
\* one propagation step reading, the constants of the worker's engine.
\* ------------------------------------------------------------------------
FieldSet == Range(GeophsFields)

\* the other worker threads that are in the middle of storing into the
\* constants that worker w's engine reads
Storing(w) ==
  {v \in (1..poolSize) \ {w} : InstanceOf(v) = InstanceOf(w) /\ wpc[v] = "set"}

\* What a propagation step of worker w can read: the constants as they are,
\* or, for each member, what a thread storing at the same time is writing
\* (an unsynchronised read of memory another thread is writing).
Reads(w) ==
  LET cur == geophs[InstanceOf(w)]
      cand(f) == {cur[f]} \cup {getWgsConstants(wmodel[v])[1][f] : v \in Storing(w)}
  IN IF Storing(w) = {} THEN {cur}
     ELSE {r \in {[f \in FieldSet |-> IF f \in S THEN WGS84[f] ELSE WGS72[f]] :
                     S \in SUBSET FieldSet} :
             \A f \in FieldSet : r[f] \in cand(f)}

\* initialize() of the worker thread: createSGP4() / createExtendedNativeSGP4()
\* and sgp4.init().  sgp4_init() leaves geophs[] as the instance was loaded
\* (WGS-72); NativeInit assigns WGS72 to current_geophs.  No worker has a
\* task yet: the pool accepts tasks once every worker has posted 'ready'.
workerInitialize(w) ==
  /\ wpc[w] = "loading"
  /\ wpc' = [wpc EXCEPT ![w] = "idle"]
  /\ geophs' = IF variant = "native"
               THEN [geophs EXCEPT ![InstanceOf(w)] = WGS72]
               ELSE geophs
  /\ UNCHANGED <<variant, wmodel, wfield, wsteps, observed, own, ntasks>>
  /\ UNCHANGED <<poolOnly, libVars>>

\* parentPort.on('message') for a propagate task with task.model = model and
\* n time steps in task.times: getWgsConstants, then either
\* setGeophysicalConstants or, for a name without constants, straight on
onPropagateTask(w) ==
  /\ \A v \in 1..poolSize : wpc[v] # "loading"
  /\ wpc[w] = "idle"
  /\ ntasks < MaxGeoTasks
  /\ ntasks' = ntasks + 1
  /\ \E model \in Models, n \in 1..MaxSteps :
       LET constants == getWgsConstants(model) IN
       /\ wmodel' = [wmodel EXCEPT ![w] = model]
       /\ wsteps' = [wsteps EXCEPT ![w] = n]
       /\ IF constants # <<>>
          THEN /\ wpc' = [wpc EXCEPT ![w] = "set"]
               /\ wfield' = [wfield EXCEPT ![w] = 1]
          ELSE /\ wpc' = [wpc EXCEPT ![w] = "propagate"]
               /\ wfield' = wfield
  /\ observed' = [observed EXCEPT ![w] = <<>>]
  /\ UNCHANGED <<variant, geophs, own>>
  /\ UNCHANGED <<poolOnly, libVars>>

\* one store of sgp4_set_geophs / NativeSetGeophs into the constants of the
\* worker's engine
setGeophysicalConstants(w) ==
  /\ wpc[w] = "set"
  /\ LET f == GeophsFields[wfield[w]]
         value == getWgsConstants(wmodel[w])[1][f]
         last == wfield[w] = Len(GeophsFields)
     IN
     /\ geophs' = [geophs EXCEPT ![InstanceOf(w)][f] = value]
     /\ own' = [own EXCEPT ![w][f] = value]
     /\ wfield' = [wfield EXCEPT ![w] = IF last THEN 0 ELSE @ + 1]
     /\ wpc' = [wpc EXCEPT ![w] = IF last THEN "propagate" ELSE "set"]
  /\ UNCHANGED <<variant, wmodel, wsteps, observed, ntasks>>
  /\ UNCHANGED <<poolOnly, libVars>>

\* one propagation step: sgp4.propagate(tle, et) in the loop of worker.ts
\* (evsgp4_c(et, geophs, ...)), or one iteration of NativePropagateRange
\* (sgp4_batch_propagate_step(..., &current_geophs, ...)); after the last
\* step the worker posts its result and is ready for the next task
propagateStep(w) ==
  /\ wpc[w] = "propagate"
  /\ \E read \in Reads(w) : observed' = [observed EXCEPT ![w] = <<read>>]
  /\ wsteps' = [wsteps EXCEPT ![w] = @ - 1]
  /\ wpc' = [wpc EXCEPT ![w] = IF wsteps[w] = 1 THEN "idle" ELSE "propagate"]
  /\ UNCHANGED <<variant, geophs, wmodel, wfield, own, ntasks>>
  /\ UNCHANGED <<poolOnly, libVars>>

\* the worker threads of a pool of poolSize workers, WASM or native
GeoInit ==
  /\ variant \in Variants
  /\ GeoIdle
  /\ PoolInit
  /\ LibIdle

GeoNext ==
  \/ \E w \in 1..poolSize : workerInitialize(w)
  \/ \E w \in 1..poolSize : onPropagateTask(w)
  \/ \E w \in 1..poolSize : setGeophysicalConstants(w)
  \/ \E w \in 1..poolSize : propagateStep(w)

GeoSpec == GeoInit /\ [][GeoNext]_vars

\* get stats() with queueLength counting the dispatched tasks as well
stats_CountsPending ==
  LET busyWorkers == Cardinality({i \in 1..Len(workers) : busy[workers[i]]}) IN
  [poolSize |-> poolSize,
   busyWorkers |-> busyWorkers,
   availableWorkers |-> poolSize - busyWorkers,
   queueLength |-> Len(taskQueue) + Cardinality(DOMAIN pendingTasks),
   pendingTasks |-> Cardinality(DOMAIN pendingTasks)]

\* get stats(): the pool statistics of the current state
stats ==
  LET busyWorkers == Cardinality({i \in 1..Len(workers) : busy[workers[i]]}) IN
  [poolSize |-> poolSize,
   busyWorkers |-> busyWorkers,
   availableWorkers |-> poolSize - busyWorkers,
   queueLength |-> Len(taskQueue),
   pendingTasks |-> Cardinality(DOMAIN pendingTasks)]

\* A worker thread that has a task in its port and is alive handles it and
\* posts its answer, which the main thread then handles.
FairSpec == Spec /\ \A w \in WorkerIds : WF_vars(workerReply(w))

\* ------------------------------------------------------------------------
\* A range task: the time loop of lib/worker.ts and of NativePropagateRange.
\* Times are IEEE doubles in the code.  Here a time is a number of units of
\* 2^-FracBits seconds and every arithmetic result is rounded as IEEE
\* arithmetic rounds it, to the nearest number with a significand of
\* Precision bits, ties to the even significand.
\* ------------------------------------------------------------------------
RECURSIVE ILog2(_)
ILog2(x) == IF x < 2 THEN 0 ELSE 1 + ILog2(x \div 2)

\* the representable number (in units) nearest to N / D units, N >= 0, D > 0
RoundRatio(N, D) ==
  LET q == N \div D
      e == IF q < 2^Precision THEN 0 ELSE ILog2(q) - (Precision - 1)
      den == D * 2^e
      m == N \div den
      r == N - m * den
      up == 2 * r > den \/ (2 * r = den /\ m % 2 = 1)
  IN (IF up THEN m + 1 ELSE m) * 2^e

Representable == {x \in 0..MaxUnits : RoundRatio(x, 1) = x}

\* the same for N / D of either sign, D # 0: rounding is symmetric about 0
Round(N, D) ==
  LET n == IF N < 0 THEN 0 - N ELSE N
      d == IF D < 0 THEN 0 - D ELSE D
  IN IF (N < 0) # (D < 0) THEN 0 - RoundRatio(n, d) ELSE RoundRatio(n, d)

\* a + b, a - b of two doubles
fadd(a, b) == Round(a + b, 1)
fsub(a, b) == Round(a - b, 1)
\* i * step: the int i converted to double, times the double step
fmul(i, b) == Round(i * b, 1)
\* a / b of two doubles, b # 0; the quotient is a pure number, in units of
\* 2^-FracBits
fdiv(a, b) == Round(a * 2^FracBits, b)
\* Math.floor(x) of a quotient x >= 0
ffloor(x) == x \div 2^FracBits
\* (int)x of a finite quotient: truncated toward zero
ftrunc(x) == IF x >= 0 THEN x \div 2^FracBits ELSE 0 - ((0 - x) \div 2^FracBits)

\* int n_steps = (int)((etf - et0) / step) + 1; if (n_steps <= 0) n_steps = 1.
\* For step = 0 the quotient is an infinity or NaN and its conversion to int
\* is undefined: the builds yield INT_MIN (x86-64), or INT_MAX or 0 (arm64);
\* n_steps becomes 1, or, where the compiler has turned n_steps <= 0 into a
\* test of the sign of the converted value, stays INT_MAX + 1, which no
\* i >= 0 is below: 0 stands for that outcome.
NativeSteps(t) ==
  IF t.step = 0 THEN {0, 1}
  ELSE LET n == ftrunc(fdiv(fsub(t.etf, t.et0), t.step)) + 1
       IN {IF n <= 0 THEN 1 ELSE n}

\* the range tasks considered: step > 0 and et0 <= etf
RangeTimes ==
  {t \in [et0 : Representable, etf : Representable, step : Representable] :
     t.step > 0 /\ t.et0 <= t.etf}

\* worker.ts: const states = []; for (let et = et0; ...
wasmLoopInit ==
  /\ variant = "wasm"
  /\ rpc = "start"
  /\ et' = times.et0
  /\ states' = <<>>
  /\ rpc' = "loop"
  /\ UNCHANGED <<times, n_steps>>
  /\ UNCHANGED <<poolOnly, geoVars, modVars, serverVars, batchVars>>

\* a loop body that steps by the magnitude of step
wasmLoopBody_AbsStep ==
  /\ variant = "wasm"
  /\ rpc = "loop"
  /\ et <= times.etf
  /\ Len(states) < MaxStates
  /\ states' = Append(states, et)
  /\ et' = fadd(et, IF times.step < 0 THEN 0 - times.step ELSE times.step)
  /\ UNCHANGED <<times, n_steps, rpc>>
  /\ UNCHANGED <<poolOnly, geoVars, modVars, serverVars, batchVars>>


\* worker.ts: one iteration, et <= etf: states.push({et, ...}); et += step
wasmLoopBody ==
  /\ variant = "wasm"
  /\ rpc = "loop"
  /\ et <= times.etf
  /\ Len(states) < MaxStates
  /\ states' = Append(states, et)
  /\ et' = fadd(et, times.step)
  /\ UNCHANGED <<times, n_steps, rpc>>
  /\ UNCHANGED <<poolOnly, geoVars, modVars, serverVars, batchVars>>

\* worker.ts: et <= etf is false: the loop ends and the states are posted
wasmLoopExit ==
  /\ variant = "wasm"
  /\ rpc = "loop"
  /\ ~(et <= times.etf)
  /\ rpc' = "done"
  /\ UNCHANGED <<times, et, states, n_steps>>
  /\ UNCHANGED <<poolOnly, geoVars, modVars, serverVars, batchVars>>

\* NativePropagateRange: n_steps = (int)((etf - et0) / step) + 1, at least 1
nativeSteps ==
  /\ variant = "native"
  /\ rpc = "start"
  /\ n_steps' \in NativeSteps(times)
  /\ states' = <<>>
  /\ rpc' = "loop"
  /\ UNCHANGED <<times, et>>
  /\ UNCHANGED <<poolOnly, geoVars, modVars, serverVars, batchVars>>

\* NativePropagateRange: iteration i < n_steps: et = et0 + i * step
nativeLoopBody ==
  /\ variant = "native"
  /\ rpc = "loop"
  /\ Len(states) < n_steps
  /\ LET i == Len(states) IN
     /\ et' = fadd(times.et0, fmul(i, times.step))
     /\ states' = Append(states, et')
  /\ UNCHANGED <<times, n_steps, rpc>>
  /\ UNCHANGED <<poolOnly, geoVars, modVars, serverVars, batchVars>>

\* NativePropagateRange: i = n_steps: the result array is returned
nativeLoopExit ==
  /\ variant = "native"
  /\ rpc = "loop"
  /\ ~(Len(states) < n_steps)
  /\ rpc' = "done"
  /\ UNCHANGED <<times, et, states, n_steps>>
  /\ UNCHANGED <<poolOnly, geoVars, modVars, serverVars, batchVars>>

\* one range task with step > 0 and et0 <= etf, on either engine
RangeInit ==
  /\ variant \in Variants
  /\ GeoIdle
  /\ PoolInit
  /\ times \in RangeTimes
  /\ et = 0
  /\ states = <<>>
  /\ n_steps = 0
  /\ rpc = "start"
  /\ ModuleIdle
  /\ ServerIdle
  /\ BatchIdle

RangeNext ==
  \/ wasmLoopInit
  \/ wasmLoopBody
  \/ wasmLoopExit
  \/ nativeSteps
  \/ nativeLoopBody
  \/ nativeLoopExit

RangeSpec == RangeInit /\ [][RangeNext]_vars

\* ------------------------------------------------------------------------
\* One propagate task on a worker thread, from the message the pool posted
\* to the reply: parentPort.on('message') of lib/worker.ts and of
\* lib/worker-native.ts.  The pool is the pool of Spec after initialize(),
\* 'ready' and one propagate() call, poolSize 1.
\* ------------------------------------------------------------------------
\* the times of a task: finite doubles, no relation between them required
TaskTimes ==
  [et0 : Representable, etf : Representable,
   step : Representable \cup {0 - x : x \in Representable}]

\* the states the loop of worker.ts has pushed when it ends (or when the
\* array holds MaxStates of them), from et = e with the states acc
RECURSIVE WasmRange(_, _, _)
WasmRange(t, e, acc) ==
  IF e <= t.etf /\ Len(acc) < MaxStates
  THEN WasmRange(t, fadd(e, t.step), Append(acc, e))
  ELSE acc

\* the states NativePropagateRange returns for n_steps = n
NativeRange(t, n) == [i \in 1..n |-> fadd(t.et0, fmul(i - 1, t.step))]

\* the taskId crypto.randomUUID() gives the first propagate() call
FirstUUID == CHOOSE u \in UUIDs : \A v \in UUIDs : u <= v

\* the pool after initialize(), 'ready' of its worker and one propagate()
TaskPosted ==
  /\ poolSize = 1
  /\ initialized = TRUE
  /\ workers = <<1>>
  /\ busy = [w \in WorkerIds |-> w = 1]
  /\ taskQueue = <<>>
  /\ pendingTasks = MapSet(EmptyMap, FirstUUID, 1)
  /\ taskIdOf = [c \in Calls |-> IF c = 1 THEN FirstUUID ELSE 0]
  /\ future = [c \in Calls |-> IF c = 1 THEN "pending" ELSE "unborn"]
  /\ settleCalls = [c \in Calls |-> 0]
  /\ nInit = 1
  /\ initCall = [c \in InitCalls |-> IF c = 1 THEN "resolved" ELSE "none"]
  /\ initWorkers = [c \in InitCalls |-> IF c = 1 THEN {1} ELSE {}]
  /\ initPromise = [w \in WorkerIds |-> IF w = 1 THEN "resolved" ELSE "none"]
  /\ shut = "idle"
  /\ shutWorkers = {}
  /\ nShut = 0
  /\ wstate = [w \in WorkerIds |-> IF w = 1 THEN "ready" ELSE "none"]
  /\ inbox = [w \in WorkerIds |-> IF w = 1 THEN <<FirstUUID>> ELSE <<>>]
  /\ outbox = [w \in WorkerIds |-> <<>>]
  /\ postedTo = [c \in Calls |-> IF c = 1 THEN 1 ELSE 0]
  /\ ev = Ev("propagate", 1, 1, NoMsg, <<[call |-> 1, worker |-> 1]>>, {}, "none")
  /\ acceptedInWindow = {}

\* the worker has taken the task off its port and not yet answered it
TaskRunning == wstate[1] = "ready" /\ Len(inbox[1]) > 0

\* setGeophysicalConstants or parseTLE throws, or, in the loop, propagate or
\* etToUTC throws for a time et that was not propagated before: the catch
\* block is entered
taskThrows ==
  /\ TaskRunning
  /\ \/ rpc = "start"
     \/ /\ variant = "wasm"
        /\ rpc = "loop"
        /\ et <= times.etf
        /\ \A k \in DOMAIN states : states[k] # et
  /\ rpc' = "caught"
  /\ UNCHANGED <<times, et, states, n_steps>>
  /\ UNCHANGED <<poolOnly, geoVars, modVars, serverVars, batchVars>>

\* parentPort.postMessage({type: 'propagate-result', taskId: task.taskId,
\* states, ...}) after the loop, and the pool's handling of it
taskReplyResult ==
  /\ TaskRunning
  /\ rpc = "done"
  /\ handleMessage(1, [type |-> "propagate-result", taskId |-> Head(inbox[1])],
                   [inbox EXCEPT ![1] = Tail(@)])
  /\ UNCHANGED <<wstate, outbox>>

\* task.taskId || 'unknown' of the catch block: 'unknown' (here -1) when the
\* task has no taskId or an empty one
ErrorTaskId_Unknown(id) == 0 - 1

ErrorTaskId(id) == IF id = 0 THEN 0 - 1 ELSE id

\* parentPort.postMessage({type: 'error', taskId: task.taskId || 'unknown',
\* ...}) of the catch block, and the pool's handling of it
taskReplyError ==
  /\ TaskRunning
  /\ rpc = "caught"
  /\ handleMessage(1, [type |-> "error", taskId |-> ErrorTaskId(Head(inbox[1]))],
                   [inbox EXCEPT ![1] = Tail(@)])
  /\ UNCHANGED <<wstate, outbox>>

\* states.push(...) when the heap of the thread is exhausted (MaxStates
\* states): the thread ends without a reply and the pool gets its 'error'
\* event (ERR_WORKER_OUT_OF_MEMORY)
taskOutOfMemory ==
  /\ TaskRunning
  /\ variant = "wasm"
  /\ rpc = "loop"
  /\ et <= times.etf
  /\ Len(states) = MaxStates
  /\ handleWorkerError(1)
  /\ outbox'[1] = <<>>

TaskInit ==
  /\ variant \in Variants
  /\ GeoIdle
  /\ TaskPosted
  /\ times \in TaskTimes
  /\ et = 0
  /\ states = <<>>
  /\ n_steps = 0
  /\ rpc = "start"
  /\ ModuleIdle
  /\ ServerIdle
  /\ BatchIdle

TaskNext ==
  \/ wasmLoopInit
  \/ wasmLoopBody
  \/ wasmLoopExit
  \/ nativeSteps
  \/ nativeLoopBody
  \/ nativeLoopExit
  \/ taskThrows
  \/ taskReplyResult
  \/ taskReplyError
  \/ taskOutOfMemory

TaskSpec == TaskInit /\ [][TaskNext]_vars


\* ------------------------------------------------------------------------
\* Module objects used directly: createSGP4() (lib/index.ts) and
\* createNativeSGP4(), called from one thread.  Every createSGP4() has its
\* own WASM instance; all native module objects share the one addon.
\* ------------------------------------------------------------------------
ModuleIds == 1..MaxPoolSize

\* the native addon as loaded: static SGP4Geophs current_geophs, all zero
Unset == [f \in Range(GeophsFields) |-> "0.0"]

\* The constants objects passed to setGeophysicalConstants: the constants
\* of a model, the same with one property missing, and the empty object.
\* A missing property reads as undefined.
ConstantsObjects ==
  {[f \in Range(GeophsFields) |-> IF f \in D THEN c[f] ELSE "undefined"] :
     c \in {WGS72, WGS84},
     D \in {Range(GeophsFields)} \cup {Range(GeophsFields) \ {f} : f \in Range(GeophsFields)}
             \cup {{}}}

\* sgp4_set_geophs called through cwrap with 'number' arguments: all 8
\* elements are assigned; undefined arrives as NaN
sgp4_set_geophs(cur, constants) ==
  [f \in Range(GeophsFields) |->
     IF constants[f] = "undefined" THEN "NaN" ELSE constants[f]]

\* NativeSetGeophs: napi_get_value_double stores into the field only when
\* the property is a number
NativeSetGeophs(cur, constants) ==
  [f \in Range(GeophsFields) |->
     IF constants[f] = "undefined" THEN cur[f] ELSE constants[f]]

\* init() without the `if (initialized) return`
init_NoGuard(m) ==
  /\ ncalls < MaxModuleCalls
  /\ ncalls' = ncalls + 1
  /\ mev' = [op |-> "init", module |-> m, n |-> ncalls + 1,
             again |-> moduleInitialized[m]]
  /\ engineInits' = [engineInits EXCEPT ![InstanceOf(m)] = @ + 1]
  /\ IF variant = "native"
     THEN /\ geophs' = [geophs EXCEPT ![InstanceOf(m)] = WGS72]
          /\ moduleInitialized' = [moduleInitialized EXCEPT ![m] = TRUE]
     ELSE /\ geophs' = geophs
          /\ \E result \in {0, -1} :
               moduleInitialized' =
                 [moduleInitialized EXCEPT ![m] = IF result # 0 THEN @ ELSE TRUE]
  /\ UNCHANGED <<variant, wpc, wmodel, wfield, wsteps, observed, own, ntasks>>
  /\ UNCHANGED <<poolOnly, rangeVars, serverVars, batchVars>>

\* init() of a module object.  Already initialized: returns.  Otherwise
\* WASM: _sgp4_init(), which fails (result -1, init() throws) or succeeds;
\* native: native.init(), which assigns WGS72 to current_geophs.
init(m) ==
  /\ ncalls < MaxModuleCalls
  /\ ncalls' = ncalls + 1
  /\ mev' = [op |-> "init", module |-> m, n |-> ncalls + 1,
             again |-> moduleInitialized[m]]
  /\ IF moduleInitialized[m]
     THEN UNCHANGED <<moduleInitialized, engineInits, geophs>>
     ELSE /\ engineInits' = [engineInits EXCEPT ![InstanceOf(m)] = @ + 1]
          /\ IF variant = "native"
             THEN /\ geophs' = [geophs EXCEPT ![InstanceOf(m)] = WGS72]
                  /\ moduleInitialized' = [moduleInitialized EXCEPT ![m] = TRUE]
             ELSE /\ geophs' = geophs
                  /\ \E result \in {0, -1} :
                       moduleInitialized' =
                         [moduleInitialized EXCEPT ![m] = IF result # 0 THEN @ ELSE TRUE]
  /\ UNCHANGED <<variant, wpc, wmodel, wfield, wsteps, observed, own, ntasks>>
  /\ UNCHANGED <<poolOnly, rangeVars, serverVars, batchVars>>

\* setGeophysicalConstants(constants, modelName) of a module object: the
\* whole call, _sgp4_set_geophs(...) or native.setGeophysicalConstants(...)
moduleSetGeophysicalConstants(m) ==
  /\ ncalls < MaxModuleCalls
  /\ ncalls' = ncalls + 1
  /\ mev' = [op |-> "setGeophysicalConstants", module |-> m, n |-> ncalls + 1,
             again |-> FALSE]
  /\ \E constants \in ConstantsObjects :
       geophs' = [geophs EXCEPT ![InstanceOf(m)] =
                    IF variant = "native" THEN NativeSetGeophs(@, constants)
                    ELSE sgp4_set_geophs(@, constants)]
  /\ UNCHANGED <<moduleInitialized, engineInits>>
  /\ UNCHANGED <<variant, wpc, wmodel, wfield, wsteps, observed, own, ntasks>>
  /\ UNCHANGED <<poolOnly, rangeVars, serverVars, batchVars>>

\* the module objects of one process, WASM or native, none used yet
ModuleInit ==
  /\ variant \in Variants
  /\ geophs = [i \in EngineIds |-> IF i = 0 THEN Unset ELSE WGS72]
  /\ wpc = [w \in 1..MaxPoolSize |-> "loading"]
  /\ wmodel = [w \in 1..MaxPoolSize |-> "wgs72"]
  /\ wfield = [w \in 1..MaxPoolSize |-> 0]
  /\ wsteps = [w \in 1..MaxPoolSize |-> 0]
  /\ observed = [w \in 1..MaxPoolSize |-> <<>>]
  /\ own = [w \in 1..MaxPoolSize |-> WGS72]
  /\ ntasks = 0
  /\ PoolInit
  /\ LibIdle

ModuleNext ==
  \/ \E m \in ModuleIds : init(m)
  \/ \E m \in ModuleIds : moduleSetGeophysicalConstants(m)

ModuleSpec == ModuleInit /\ [][ModuleNext]_vars

\* ------------------------------------------------------------------------
\* The native server's propagate endpoint: handlePropagate.  Times are
\* seconds.  A JavaScript number is a record: an integer v (k = "num"), NaN,
\* Infinity or -Infinity.  A query parameter is <<>> when absent and <<x>>
\* when it has the value x.
\* ------------------------------------------------------------------------
MAX_POINTS == 1209602

Num(v) == [k |-> "num", v |-> v]
NaN == [k |-> "nan", v |-> 0]
Infinity == [k |-> "inf", v |-> 0]
NegInfinity == [k |-> "ninf", v |-> 0]

\* the values sgp4.utcToET gives for the t0 and tf strings considered
ETs == {0, 120, MAX_POINTS - 1, MAX_POINTS}

\* what parseFloat gives for the step strings considered
Steps == {NaN, Num(-60), Num(0), Num(1), Num(60)}

Requests ==
  [t0 : {<<>>} \cup {<<e>> : e \in ETs},
   tf : {<<>>} \cup {<<e>> : e \in ETs},
   step : {<<>>} \cup {<<x>> : x \in Steps},
   unit : {"sec", "min"},
   wgs : Models,
   input_type : {"tle", "omm"},
   body : {"lines", "omm", "empty", "badjson"}]

\* step *= 60
Times60(x) == IF x.k = "num" THEN Num(x.v * 60) ELSE x

\* Math.floor(a / b), a an integer
FloorDiv(a, b) ==
  IF b.k = "nan" THEN NaN
  ELSE IF b.v = 0
       THEN (IF a > 0 THEN Infinity ELSE IF a < 0 THEN NegInfinity ELSE NaN)
  ELSE IF b.v > 0 THEN Num(a \div b.v)
  ELSE Num((0 - a) \div (0 - b.v))

\* x + 1
Plus1(x) == IF x.k = "num" THEN Num(x.v + 1) ELSE x

\* x > MAX_POINTS
TooMany(x) == IF x.k = "num" THEN x.v > MAX_POINTS ELSE x.k = "inf"

\* let step = stepStr ? parseFloat(stepStr) : 60; if (unit === 'min') step *= 60
StepOf(r) ==
  LET step == IF r.step = <<>> THEN Num(60) ELSE r.step[1]
  IN IF r.unit = "min" THEN Times60(step) ELSE step

\* const etf = tf ? sgp4.utcToET(tf) : et0
EtfOf(r) == IF r.tf = <<>> THEN r.t0[1] ELSE r.tf[1]

\* const numPoints = Math.floor((etf - et0) / step) + 1
numPoints(r) == Plus1(FloorDiv(EtfOf(r) - r.t0[1], StepOf(r)))

\* line1 and line2 are both there: from the body, or from ommToTLE after
\* validateOMM accepted the body
HasLines(r) ==
  IF r.input_type = "omm" THEN r.body = "omm" ELSE r.body = "lines"

\* handlePropagate up to its answer or to the await of the pool: the checks
\* in the order of the code, the single-time answer, the call of the pool
handlePropagate ==
  /\ spc = "received"
  /\ LET constants == getWgsConstants(req.wgs)
         Reject(error) ==
           /\ res' = [status |-> 400, error |-> error]
           /\ spc' = "responded"
           /\ submitted' = submitted
     IN
     IF req.body = "badjson" THEN Reject("Invalid JSON in body query parameter") /\ geophs' = geophs
     ELSE IF req.t0 = <<>> THEN Reject("Missing required parameter: t0") /\ geophs' = geophs
     ELSE IF constants = <<>> THEN Reject("Unknown model") /\ geophs' = geophs
     ELSE
       /\ geophs' = [geophs EXCEPT ![0] = constants[1]]
       /\ IF req.input_type = "omm" /\ req.body # "omm" THEN Reject("validateOMM")
          ELSE IF ~HasLines(req) THEN Reject("Missing TLE lines in request body")
          ELSE IF req.tf = <<>> /\ req.step = <<>>
          THEN /\ res' = [status |-> 200, error |-> "none"]
               /\ spc' = "responded"
               /\ submitted' = submitted
          ELSE IF TooMany(numPoints(req)) THEN Reject("Too many points")
          ELSE /\ submitted' = Append(submitted,
                                      [et0 |-> req.t0[1], etf |-> EtfOf(req),
                                       step |-> StepOf(req), model |-> req.wgs])
               /\ spc' = "awaiting"
               /\ res' = res
  /\ UNCHANGED req
  /\ UNCHANGED <<variant, wpc, wmodel, wfield, wsteps, observed, own, ntasks>>
  /\ UNCHANGED <<poolOnly, rangeVars, modVars, batchVars>>

\* the promise of nativeWorkerPool.propagate() resolves: the states are sent
poolResolves ==
  /\ spc = "awaiting"
  /\ res' = [status |-> 200, error |-> "none"]
  /\ spc' = "responded"
  /\ UNCHANGED <<req, submitted>>
  /\ UNCHANGED <<poolOnly, geoVars, rangeVars, modVars, batchVars>>

\* the promise rejects: asyncHandler passes the error to next()
poolRejects ==
  /\ spc = "awaiting"
  /\ res' = [status |-> 500, error |-> "pool"]
  /\ spc' = "responded"
  /\ UNCHANGED <<req, submitted>>
  /\ UNCHANGED <<poolOnly, geoVars, rangeVars, modVars, batchVars>>

\* the native server with one propagate request received
ServerInit ==
  /\ variant = "native"
  /\ GeoIdle
  /\ PoolInit
  /\ RangeIdle
  /\ ModuleIdle
  /\ BatchIdle
  /\ req \in Requests
  /\ res = NoRes
  /\ submitted = <<>>
  /\ spc = "received"

ServerNext ==
  \/ handlePropagate
  \/ poolResolves
  \/ poolRejects

ServerSpec == ServerInit /\ [][ServerNext]_vars

\* ------------------------------------------------------------------------
\* The batch structures of sgp4_batch.h and the batch propagation pstep of
\* sgp4_simd.c.  An int has IntBits bits and a size_t SizeBits bits.
\* ------------------------------------------------------------------------
INT_MAX == 2^(IntBits - 1) - 1
PTRDIFF_MAX == 2^(SizeBits - 1) - 1

Builds == {"neon", "avx2", "scalar"}

\* SIMD_WIDTH of a build
SIMD_WIDTH(b) == IF b = "neon" THEN 2 ELSE IF b = "avx2" THEN 4 ELSE 1

\* the int a sum or product has when the build lets it wrap around
WrapInt(x) == ((x + 2^(IntBits - 1)) % 2^IntBits) - 2^(IntBits - 1)

\* a / b of two ints, b > 0: the quotient truncated toward zero
TruncDiv(a, b) == IF a >= 0 THEN a \div b ELSE 0 - ((0 - a) \div b)

\* int capacity = (count / 8) * 8: rounded down
CapacityOf_RoundedDown(n) == WrapInt(TruncDiv(n, 8) * 8)

\* int capacity = ((count + 7) / 8) * 8
CapacityOf(n) == WrapInt(TruncDiv(WrapInt(n + 7), 8) * 8)

\* size_t size = capacity * sizeof(double)
SizeOf(cap) == ((cap % 2^SizeBits) * 8) % 2^SizeBits

\* sgp4_batch_set returns at once for idx > capacity
Ignored_OffByOne(idx, cap) == idx > cap

\* sgp4_batch_set: if (idx >= batch->capacity) return;
Ignored(idx, cap) == idx >= cap

\* sgp4_batch_alloc(n).  malloc of the struct fails: NULL is returned.  An
\* aligned_alloc that fails, as every one does for a size above
\* PTRDIFF_MAX, returns NULL, which the memset that follows writes through.
sgp4_batch_alloc ==
  /\ ~crashed
  /\ batch = "none"
  /\ \E n \in 0..INT_MAX, structOk \in BOOLEAN, arraysOk \in BOOLEAN :
       LET cap == CapacityOf(n)
           size == SizeOf(cap)
       IN
       /\ bev' = [op |-> "alloc", idx |-> n, value |-> 0]
       /\ IF ~structOk
          THEN /\ batch' = "NULL"
               /\ UNCHANGED <<count, capacity, arrays, hazard, crashed>>
          ELSE IF size > 0 /\ (size > PTRDIFF_MAX \/ ~arraysOk)
          THEN /\ hazard' = hazard \cup {"null-write"}
               /\ crashed' = TRUE
               /\ UNCHANGED <<batch, count, capacity, arrays>>
          ELSE /\ batch' = "live"
               /\ count' = n
               /\ capacity' = cap
               /\ arrays' = [a \in BatchArrays |-> [i \in 1..(size \div 8) |-> 0]]
               /\ UNCHANGED <<hazard, crashed>>
  /\ UNCHANGED <<build, batchResult, frees, wrote, nsets, nfrees, pstep>>
  /\ UNCHANGED <<poolOnly, geoVars, rangeVars, modVars, serverVars>>

\* the indices passed to sgp4_batch_set: the ends of the arrays, their
\* neighbours on both sides and an index inside
SetIndices(cap) == {-1, 0, 1, cap - 1, cap, cap + 1}

\* sgp4_batch_set(batch, idx, ...) on a live batch, every element given the
\* value v.  Element idx of a C array is element idx + 1 of the sequence.
\* A store at an index outside the array is a store into other memory.
sgp4_batch_set ==
  /\ ~crashed
  /\ batch = "live"
  /\ nsets < MaxSets
  /\ nsets' = nsets + 1
  /\ \E idx \in SetIndices(capacity) :
       LET v == nsets + 1 IN
       /\ bev' = [op |-> "set", idx |-> idx, value |-> v]
       /\ IF Ignored(idx, capacity)
          THEN UNCHANGED <<arrays, wrote, hazard, crashed>>
          ELSE IF idx >= 0 /\ idx < Len(arrays["ndot"])
          THEN /\ arrays' = [a \in BatchArrays |->
                               IF a \in ElementArrays
                               THEN [arrays[a] EXCEPT ![idx + 1] = v]
                               ELSE arrays[a]]
               /\ wrote' = wrote \cup {idx}
               /\ UNCHANGED <<hazard, crashed>>
          ELSE /\ hazard' = hazard \cup {"write-out-of-bounds"}
               /\ crashed' \in BOOLEAN
               /\ UNCHANGED <<arrays, wrote>>
  /\ UNCHANGED <<build, batch, count, capacity, batchResult, frees, nfrees, pstep>>
  /\ UNCHANGED <<poolOnly, geoVars, rangeVars, modVars, serverVars>>

\* one more pass over index i
Processed(t, i) == [t EXCEPT ![i + 1] = @ + 1]

\* #ifdef USE_NEON: for (; i + 1 < batch->count; i += 2) sgp4_propagate_2x_neon
\* gives the index the loop stops at and the indices it has passed over
RECURSIVE VectorLoop(_, _, _, _)
VectorLoop(b, i, n, st) ==
  IF b = "neon" /\ i + 1 < n
  THEN VectorLoop(b, i + 2, n,
                  [st EXCEPT !.vector = @ \cup {i, i + 1},
                             !.times = Processed(Processed(@, i), i + 1)])
  ELSE <<i, st>>

\* for (; i < batch->count; i++) sgp4_propagate_scalar
RECURSIVE ScalarLoop(_, _, _)
ScalarLoop(i, n, st) ==
  IF i < n
  THEN ScalarLoop(i + 1, n, [st EXCEPT !.scalar = @ \cup {i},
                                       !.times = Processed(@, i)])
  ELSE st

\* sgp4_batch_propagate_step on a live batch, with output arrays of
\* capacity elements: times[i + 1] counts the stores into x[i], ..., vz[i]
sgp4_batch_propagate_step ==
  /\ ~crashed
  /\ batch = "live"
  /\ ~pstep.done
  /\ LET st0 == [done |-> TRUE, vector |-> {}, scalar |-> {},
                 times |-> [i \in 1..capacity |-> 0]]
         v == VectorLoop(build, 0, count, st0)
     IN pstep' = ScalarLoop(v[1], count, v[2])
  /\ bev' = [op |-> "propagate_step", idx |-> 0, value |-> 0]
  /\ UNCHANGED <<build, batch, count, capacity, arrays, batchResult, frees, hazard, crashed,
                 wrote, nsets, nfrees>>
  /\ UNCHANGED <<poolOnly, geoVars, rangeVars, modVars, serverVars>>

\* sgp4_batch_free(batch) with the pointer the caller holds.  NULL: returns.
\* Otherwise the 13 array pointers are read from the struct and freed, then
\* the struct; for a batch already released the struct read is freed memory.
sgp4_batch_free ==
  /\ ~crashed
  /\ batch \in {"NULL", "live", "released"}
  /\ nfrees < MaxFrees
  /\ nfrees' = nfrees + 1
  /\ bev' = [op |-> "batch_free", idx |-> 0, value |-> 0]
  /\ IF batch = "NULL"
     THEN UNCHANGED <<batch, frees, hazard, crashed>>
     ELSE /\ frees' = [b \in Blocks |->
                         IF b \in BatchArrays \cup {"SGP4Batch"} THEN frees[b] + 1
                         ELSE frees[b]]
          /\ batch' = "released"
          /\ IF batch = "released"
             THEN /\ hazard' = hazard \cup {"read-freed", "double-free"}
                  /\ crashed' \in BOOLEAN
             ELSE UNCHANGED <<hazard, crashed>>
  /\ UNCHANGED <<build, count, capacity, arrays, batchResult, wrote, nsets, pstep>>
  /\ UNCHANGED <<poolOnly, geoVars, rangeVars, modVars, serverVars>>

\* sgp4_result_alloc(count, steps): NULL when malloc of the struct fails.
\* The six aligned_alloc results are stored unchecked and the struct is
\* returned: "partial" is a struct with a NULL array pointer.
sgp4_result_alloc ==
  /\ ~crashed
  /\ batchResult = "none"
  /\ \E structOk \in BOOLEAN, arraysOk \in BOOLEAN :
       batchResult' = IF ~structOk THEN "NULL"
                      ELSE IF ~arraysOk THEN "partial" ELSE "live"
  /\ bev' = [op |-> "result_alloc", idx |-> 0, value |-> 0]
  /\ UNCHANGED <<build, batch, count, capacity, arrays, frees, hazard, crashed,
                 wrote, nsets, nfrees, pstep>>
  /\ UNCHANGED <<poolOnly, geoVars, rangeVars, modVars, serverVars>>

\* sgp4_result_free(result) with the pointer the caller holds
sgp4_result_free ==
  /\ ~crashed
  /\ batchResult \in {"NULL", "live", "partial", "released"}
  /\ nfrees < MaxFrees
  /\ nfrees' = nfrees + 1
  /\ bev' = [op |-> "result_free", idx |-> 0, value |-> 0]
  /\ IF batchResult = "NULL"
     THEN UNCHANGED <<batchResult, frees, hazard, crashed>>
     ELSE /\ frees' = [b \in Blocks |->
                         IF b \in ResultArrays \cup {"SGP4BatchResult"} THEN frees[b] + 1
                         ELSE frees[b]]
          /\ batchResult' = "released"
          /\ IF batchResult = "released"
             THEN /\ hazard' = hazard \cup {"read-freed", "double-free"}
                  /\ crashed' \in BOOLEAN
             ELSE UNCHANGED <<hazard, crashed>>
  /\ UNCHANGED <<build, batch, count, capacity, arrays, wrote, nsets, pstep>>
  /\ UNCHANGED <<poolOnly, geoVars, rangeVars, modVars, serverVars>>

\* a process that uses the batch interface, in one of the three builds
BatchInit ==
  /\ variant = "native"
  /\ GeoIdle
  /\ PoolInit
  /\ RangeIdle
  /\ ModuleIdle
  /\ ServerIdle
  /\ build \in Builds
  /\ batch = "none"
  /\ count = 0
  /\ capacity = 0
  /\ arrays = [a \in BatchArrays |-> <<>>]
  /\ batchResult = "none"
  /\ frees = [b \in Blocks |-> 0]
  /\ hazard = {}
  /\ crashed = FALSE
  /\ wrote = {}
  /\ nsets = 0
  /\ nfrees = 0
  /\ bev = NoBev
  /\ pstep = NoStep

BatchNext ==
  \/ sgp4_batch_alloc
  \/ sgp4_batch_set
  \/ sgp4_batch_propagate_step
  \/ sgp4_batch_free
  \/ sgp4_result_alloc
  \/ sgp4_result_free

BatchSpec == BatchInit /\ [][BatchNext]_vars

\* ========================================================================
\* Properties
\* ========================================================================
Idle(w) == ~busy[w]

\* C1: a propagate() call on an initialized pool either posts its task to a
\* worker that was not busy (marking it busy and entering the task in the
\* pending map, in the same step), or, when every worker was busy, appends
\* the task to the tail of the queue and posts it to nobody.
C1_PropagateDispatchOrQueue ==
  [][ (ev'.op = "propagate") =>
        LET c == ev'.call IN
        /\ initialized
        /\ IF \E i \in DOMAIN workers : Idle(workers[i])
           THEN \E i \in DOMAIN workers :
                  LET w == workers[i] IN
                  /\ Idle(w) /\ busy'[w]
                  /\ inbox' = [inbox EXCEPT ![w] = Append(@, taskIdOf'[c])]
                  /\ taskIdOf'[c] \in DOMAIN pendingTasks'
                  /\ pendingTasks'[taskIdOf'[c]] = c
                  /\ taskQueue' = taskQueue
           ELSE /\ taskQueue' = Append(taskQueue, c)
                /\ inbox' = inbox
                /\ busy' = busy
                /\ pendingTasks' = pendingTasks ]_vars

\* a call was queued behind tasks that are in flight
C1_Witness ==
  /\ ev.op = "propagate"
  /\ ev.posted = <<>>
  /\ Len(taskQueue) > 0
  /\ taskQueue[Len(taskQueue)] = ev.call
  /\ DOMAIN pendingTasks # {}
  /\ \A i \in DOMAIN workers : busy[workers[i]]

\* C2: tasks are dispatched in submission order: the queue holds the waiting
\* calls in submission order, and no call is posted to a worker while a call
\* submitted before it is still waiting in the queue.
C2_FifoDispatch ==
  /\ \A i, j \in DOMAIN taskQueue : i < j => taskQueue[i] < taskQueue[j]
  /\ \A i \in DOMAIN ev.posted : \A j \in DOMAIN taskQueue :
       ev.posted[i].call < taskQueue[j]

\* a call whose task was posted to worker w and for which the pool has not
\* yet handled a 'propagate-result' or 'error' message
InFlightOn(w) == {c \in Calls : postedTo[c] = w /\ future[c] = "pending"}

\* C3 (as claimed): between the posting of a task to a worker and the pool's
\* handling of that worker's result or error message for it, no other task is
\* posted to the same worker, whatever submissions, completion messages and
\* worker 'error' events occur.
C3_OneTaskPerWorker_Claimed ==
  \A w \in WorkerIds : Cardinality(InFlightOn(w)) <= 1

\* C3 (amended): the same, for every worker that has raised no 'error' event;
\* such a worker is marked busy exactly while one task is posted to it and
\* unanswered (as long as the pool still holds it in its workers array).
C3_OneTaskPerWorker ==
  \A w \in WorkerIds :
    wstate[w] # "crashed" =>
      /\ Cardinality(InFlightOn(w)) <= 1
      /\ (w \in Range(workers) => (busy[w] <=> InFlightOn(w) # {}))

\* every worker of the pool is busy with one task, a further call waits
C3_Witness ==
  /\ workers # <<>>
  /\ \A i \in DOMAIN workers :
       /\ wstate[workers[i]] = "ready"
       /\ busy[workers[i]]
       /\ Cardinality(InFlightOn(workers[i])) = 1
  /\ Len(taskQueue) > 0
  /\ Len(workers) > 1

\* C4: a 'propagate-result' or 'error' message with taskId T settles the
\* promise of the propagate() call that generated T and no other; task ids
\* of different calls differ; no promise has resolve/reject invoked twice.
C4_ReplySettlesItsOwnCall ==
  /\ \A c, d \in Calls : (taskIdOf[c] # 0 /\ taskIdOf[c] = taskIdOf[d]) => c = d
  /\ \A c \in Calls : settleCalls[c] <= 1
  /\ ev.op = "handleMessage" =>
       /\ ev.settled = {ev.call}
       /\ taskIdOf[ev.call] = ev.msg.taskId
       /\ future[ev.call] = "settled"
  /\ \A c \in Calls : (future[c] = "settled") <=> (settleCalls[c] = 1)

\* replies of two workers were handled in the opposite order of their
\* dispatch: the later call is settled, the earlier one is still in flight
C4_Witness ==
  /\ ev.op = "handleMessage"
  /\ \E c \in Calls :
       /\ c < ev.call
       /\ future[c] = "pending"
       /\ postedTo[c] \notin {0, ev.worker}
       /\ taskIdOf[c] \in DOMAIN pendingTasks

\* C5: handling a 'propagate-result' or 'error' message of worker w for a
\* pending task is one step in which the task's entry leaves the pending map,
\* w is marked not busy and, if the queue is non-empty, the queue head is
\* taken off the queue and posted to w (which is thereby busy again).
C5_CompletionStep ==
  [][ (ev'.op = "handleMessage") =>
        LET w == ev'.worker
            T == ev'.msg.taskId
        IN
        /\ ev'.msg.type \in {"propagate-result", "error"}
        /\ T \in DOMAIN pendingTasks
        /\ IF taskQueue = <<>>
           THEN /\ pendingTasks' = MapDelete(pendingTasks, T)
                /\ ~busy'[w]
                /\ taskQueue' = <<>>
                /\ ev'.posted = <<>>
           ELSE LET head == Head(taskQueue) IN
                /\ pendingTasks' = MapSet(MapDelete(pendingTasks, T),
                                          taskIdOf[head], head)
                /\ taskQueue' = Tail(taskQueue)
                /\ ev'.posted = <<[call |-> head, worker |-> w]>>
                /\ postedTo'[head] = w
                /\ busy'[w] ]_vars

\* a completion message was handled while a call was waiting: the queue head
\* went to the worker that reported
C5_Witness ==
  /\ ev.op = "handleMessage"
  /\ Len(ev.posted) = 1
  /\ ev.posted[1].worker = ev.worker
  /\ ev.posted[1].call > ev.call
  /\ taskIdOf[ev.call] \notin DOMAIN pendingTasks
  /\ taskIdOf[ev.posted[1].call] \in DOMAIN pendingTasks

\* C6: shutdown() rejects every queued call with 'Worker pool shutting down',
\* terminates every worker, and when it returns the queue and the pending map
\* are empty, the pool has no workers and is not initialized; no call that
\* was only queued (never dispatched) is left with an unsettled promise.
C6_ShutdownLeavesPoolEmpty ==
  /\ ev.op = "shutdown" =>
       /\ taskQueue = <<>>
       /\ \A c \in ev.settled : future[c] = "settled"
       /\ ev.outcome = "reject(Error('Worker pool shutting down'))"
  /\ ev.op = "shutdownComplete" =>
       /\ taskQueue = <<>>
       /\ pendingTasks = EmptyMap
       /\ workers = <<>>
       /\ ~initialized
       /\ \A w \in shutWorkers : Dead(w)
       /\ \A c \in Calls : (future[c] = "pending") => (postedTo[c] # 0)

\* C7: an 'error' message for task T rejects the promise of T's call with the
\* worker's message and touches no other call: every other promise, every
\* other pending entry and every queued call stay as they are, except that
\* the queue head is dispatched to the freed worker; the reporting worker
\* itself is left as it was, available to the pool for later tasks.
C7_ErrorIsolation ==
  [][ (ev'.op = "handleMessage" /\ ev'.msg.type = "error") =>
        LET w == ev'.worker
            T == ev'.msg.taskId
            c == ev'.call
        IN
        /\ taskIdOf[c] = T
        /\ future[c] = "pending" /\ future'[c] = "settled"
        /\ ev'.settled = {c}
        /\ ev'.outcome = "reject(Error(msg.error))"
        /\ \A d \in Calls \ {c} :
             /\ future'[d] = future[d]
             /\ settleCalls'[d] = settleCalls[d]
        /\ \A k \in DOMAIN pendingTasks \ {T} :
             k \in DOMAIN pendingTasks' /\ pendingTasks'[k] = pendingTasks[k]
        /\ \/ /\ taskQueue' = taskQueue
              /\ ev'.posted = <<>>
              /\ DOMAIN pendingTasks' = DOMAIN pendingTasks \ {T}
              /\ ~busy'[w]
           \/ /\ taskQueue # <<>>
              /\ taskQueue' = Tail(taskQueue)
              /\ ev'.posted = <<[call |-> Head(taskQueue), worker |-> w]>>
              /\ DOMAIN pendingTasks' =
                   (DOMAIN pendingTasks \ {T}) \cup {taskIdOf[Head(taskQueue)]}
        /\ wstate'[w] = wstate[w]
        /\ \A x \in WorkerIds \ {w} : busy'[x] = busy[x] ]_vars

\* an 'error' reply was handled while another call was in flight on another
\* worker and a third was waiting in the queue
C7_Witness ==
  /\ ev.op = "handleMessage"
  /\ ev.msg.type = "error"
  /\ ev.outcome = "reject(Error(msg.error))"
  /\ Len(ev.posted) = 1
  /\ \E d \in Calls :
       /\ d # ev.call
       /\ d # ev.posted[1].call
       /\ future[d] = "pending"
       /\ taskIdOf[d] \in DOMAIN pendingTasks

\* C8 (as claimed): initialize() resolves, marking the pool initialized, only
\* when every one of its poolSize workers has sent 'ready'; if any of its
\* workers raises an error, or times out, while the call is waiting, the call
\* rejects; a rejected call never marks the pool initialized; while the pool
\* is not initialized propagate() throws and changes nothing.
C8_InitAllOrNothing_Claimed ==
  [][ /\ (~initialized /\ initialized') =>
           \E c \in InitCalls :
             /\ initCall[c] = "waiting" /\ initCall'[c] = "resolved"
             /\ Cardinality(initWorkers[c]) = poolSize
             /\ \A w \in initWorkers[c] : initPromise'[w] = "resolved"
      /\ (ev'.op \in {"handleWorkerError", "initTimeout"}
           /\ initCall[InitCallOf(ev'.worker)] = "waiting") =>
           initCall'[InitCallOf(ev'.worker)] = "rejected"
      /\ \A c \in InitCalls : initCall[c] = "rejected" => initCall'[c] = "rejected"
      /\ ~initialized =>
           /\ ev'.op # "propagate"
           /\ (ev'.op = "propagate-throw" =>
                  /\ taskQueue' = taskQueue /\ inbox' = inbox
                  /\ pendingTasks' = pendingTasks /\ future' = future) ]_vars

\* C8 (amended): the same, where the error or the timeout of a worker makes
\* its call reject when it comes before that worker's 'ready' was handled.
C8_InitAllOrNothing ==
  [][ /\ (~initialized /\ initialized') =>
           \E c \in InitCalls :
             /\ initCall[c] = "waiting" /\ initCall'[c] = "resolved"
             /\ Cardinality(initWorkers[c]) = poolSize
             /\ \A w \in initWorkers[c] : initPromise'[w] = "resolved"
      /\ (ev'.op \in {"handleWorkerError", "initTimeout"}
           /\ initPromise[ev'.worker] = "pending") =>
           /\ initPromise'[ev'.worker] = "rejected"
           /\ initCall'[InitCallOf(ev'.worker)] = "rejected"
      /\ \A c \in InitCalls : initCall[c] = "rejected" => initCall'[c] = "rejected"
      /\ ~initialized =>
           /\ ev'.op # "propagate"
           /\ (ev'.op = "propagate-throw" =>
                  /\ taskQueue' = taskQueue /\ inbox' = inbox
                  /\ pendingTasks' = pendingTasks /\ future' = future) ]_vars

\* an initialize() call of two workers was rejected after one of them had
\* sent 'ready', and a propagate() call then threw
C8_Witness ==
  /\ ev.op = "propagate-throw"
  /\ ~initialized
  /\ \E c \in InitCalls :
       /\ initCall[c] = "rejected"
       /\ \E w \in initWorkers[c] : initPromise[w] = "resolved"
  /\ \A c \in Calls : future[c] = "unborn"

\* no shutdown() is called and no worker thread dies
NoLoss == nShut = 0 /\ \A w \in WorkerIds : wstate[w] # "crashed"

\* C9: in a run where shutdown() is not called and no worker thread dies, and
\* every worker that is sent a task eventually answers it, every submitted
\* call is eventually posted to a worker and its promise eventually settled.
C9_NoStarvation ==
  ([]NoLoss) =>
    \A c \in Calls :
      (future[c] = "pending") ~> (future[c] = "settled" /\ postedTo[c] # 0)

\* K calls were submitted to W < K workers, and all have been settled
C9_Witness ==
  /\ NoLoss
  /\ initialized
  /\ Len(workers) < MaxTasks
  /\ \A c \in Calls : future[c] = "settled" /\ postedTo[c] # 0
  /\ \E c \in Calls : c > 1 /\ postedTo[c] = postedTo[1]

\* C10: a propagation step of a worker thread uses the geophysical constants
\* as that worker's own calls have set them: a setGeophysicalConstants made by
\* another worker thread is never observed, in the WASM and in the native
\* variant alike.
C10_GeophsPrivate ==
  \A w \in 1..MaxPoolSize : observed[w] # <<>> => observed[w][1] = own[w]

\* the WASM half of C10 alone
C10_GeophsPrivateWasm ==
  variant = "wasm" => C10_GeophsPrivate

\* two WASM workers propagated with different constants
C10_WitnessWasm ==
  /\ variant = "wasm"
  /\ \E v, w \in 1..MaxPoolSize :
       /\ observed[v] # <<>> /\ observed[w] # <<>>
       /\ observed[v] # observed[w]

\* C11: the states returned for a task are a function of its own inputs: the
\* engine evaluates them from the task's elements and times and from the
\* constants in effect, so two propagation steps of tasks with the same model
\* name use the same constants, whichever worker runs them and whatever it
\* ran before.
C11_InputsDetermineStates ==
  \A v, w \in 1..MaxPoolSize :
    (observed[v] # <<>> /\ observed[w] # <<>> /\ wmodel[v] = wmodel[w]) =>
      observed[v] = observed[w]

\* C11 for the WASM workers and tasks whose model name has constants
C11_InputsDetermineStatesWasm ==
  \A v, w \in 1..MaxPoolSize :
    (variant = "wasm" /\ observed[v] # <<>> /\ observed[w] # <<>>
       /\ wmodel[v] = wmodel[w] /\ getWgsConstants(wmodel[v]) # <<>>) =>
      observed[v] = observed[w]

\* ------------------------------------------------------------------------
\* C12: for a range task with step > 0 and et0 <= etf the returned sequence
\* has exactly floor((etf - et0)/step) + 1 states, the k-th timestamp is
\* et0 + k*step (strictly increasing, evenly spaced by step), the first
\* timestamp is et0 and the last is <= etf.  The arithmetic of the claim is
\* read either exactly or as the program's doubles compute it; the claim is
\* taken to hold of a result when it holds in one of the two readings.
\* ------------------------------------------------------------------------
C12_Exact ==
  LET n == Len(states) IN
  /\ n = ((times.etf - times.et0) \div times.step) + 1
  /\ \A k \in 1..n : states[k] = times.et0 + (k - 1) * times.step
  /\ states[1] = times.et0
  /\ states[n] <= times.etf

C12_InDoubles ==
  LET n == Len(states) IN
  /\ n = ffloor(fdiv(fsub(times.etf, times.et0), times.step)) + 1
  /\ \A k \in 1..n : states[k] = fadd(times.et0, fmul(k - 1, times.step))
  /\ \A k \in 1..(n - 1) : states[k] < states[k + 1]
  /\ states[1] = times.et0
  /\ states[n] <= times.etf

C12_RangeSequence == rpc = "done" => (C12_Exact \/ C12_InDoubles)

\* ------------------------------------------------------------------------
\* C13: in every reachable state the 8 current constants of an engine all
\* come from one and the same model, whatever constants objects
\* setGeophysicalConstants was given (an engine on which no constants have
\* been set yet has none)
\* ------------------------------------------------------------------------
C13_ConstantsFromOneModel ==
  \A i \in EngineIds : geophs[i] \in {WGS72, WGS84, Unset}

\* ------------------------------------------------------------------------
\* C20: init() is idempotent: on a module whose init() has already
\* succeeded, a further init() call returns without invoking the engine
\* initializer again and without changing any state of the module or of
\* its engine
\* ------------------------------------------------------------------------
C20_InitIdempotent ==
  [][\A m \in ModuleIds :
       (mev' # mev /\ mev'.op = "init" /\ mev'.module = m /\ moduleInitialized[m]) =>
         /\ engineInits' = engineInits
         /\ moduleInitialized' = moduleInitialized
         /\ geophs' = geophs]_vars

\* a second init() was made on an initialized native module whose engine
\* holds WGS-84, constants the engine initializer would have replaced
C20_Witness ==
  /\ mev.op = "init"
  /\ mev.again
  /\ variant = "native"
  /\ moduleInitialized[mev.module]
  /\ engineInits[InstanceOf(mev.module)] = 1
  /\ geophs[InstanceOf(mev.module)] = WGS84

\* ------------------------------------------------------------------------
\* C14: with K tasks submitted in total to a pool of W workers, W < K,
\* stats.queueLength never exceeds K - W in a state in which all W workers
\* are busy.  Checked with K the number of tasks submitted so far, which is
\* at most the total.
\* ------------------------------------------------------------------------
Submitted == {c \in Calls : future[c] # "unborn"}

C14_QueueLengthBound ==
  stats.busyWorkers >= stats.poolSize =>
    stats.queueLength <= Cardinality(Submitted) - stats.poolSize

\* more tasks submitted than workers, all workers busy, and the queue as
\* long as the bound allows
C14_Witness ==
  /\ Cardinality(Submitted) > stats.poolSize
  /\ stats.poolSize = MaxPoolSize
  /\ stats.busyWorkers = stats.poolSize
  /\ stats.queueLength = Cardinality(Submitted) - stats.poolSize
  /\ stats.queueLength > 0

\* ------------------------------------------------------------------------
\* C15: a propagate request with an unknown model name, a missing t0,
\* missing TLE lines or a point count outside [1, MAX_POINTS] is answered
\* with an error and never reaches the pool: every task the server passes
\* to the pool's propagate() comes from a request that passed these checks
\* ------------------------------------------------------------------------
InAllowedRange(n) == n.k = "num" /\ 1 <= n.v /\ n.v <= MAX_POINTS

C15_RejectedBeforePool ==
  submitted # <<>> =>
    /\ req.t0 # <<>>
    /\ getWgsConstants(req.wgs) # <<>>
    /\ HasLines(req)
    /\ InAllowedRange(numPoints(req))

\* C15 without the lower end of the range: unknown models, a missing t0,
\* missing lines and more than MAX_POINTS points never reach the pool
C15_RejectedBeforePoolUpper ==
  submitted # <<>> =>
    /\ req.t0 # <<>>
    /\ getWgsConstants(req.wgs) # <<>>
    /\ HasLines(req)
    /\ ~TooMany(numPoints(req))

\* ------------------------------------------------------------------------
\* C16: every batch returned by sgp4_batch_alloc(count), count >= 0, has
\* count <= capacity, capacity the smallest multiple of 8 that is >= count,
\* all 13 arrays of length capacity, and zero in every slot, the padding
\* slots count..capacity-1 included, until the slot is set
\* ------------------------------------------------------------------------
C16_BatchAllocShape ==
  batch = "live" =>
    /\ count <= capacity
    /\ capacity % 8 = 0
    /\ capacity - count < 8
    /\ \A a \in BatchArrays : Len(arrays[a]) = capacity
    /\ \A a \in BatchArrays, i \in 0..(capacity - 1) :
         (a \notin ElementArrays \/ i \notin wrote) => arrays[a][i + 1] = 0

\* a batch of two lanes with padding, one slot set, a padding slot not
C16_Witness ==
  /\ batch = "live"
  /\ count > 8
  /\ count < capacity
  /\ wrote # {}
  /\ (capacity - 1) \notin wrote

\* ------------------------------------------------------------------------
\* C17: sgp4_batch_set with index >= capacity writes no element of any
\* batch array and no memory outside the arrays; with 0 <= index < capacity
\* it writes exactly the ten element fields at that index and changes no
\* other slot
\* ------------------------------------------------------------------------
C17_BatchSetFrame ==
  [][(bev' # bev /\ bev'.op = "set") =>
       LET idx == bev'.idx IN
       /\ idx >= capacity => (arrays' = arrays /\ hazard' = hazard)
       /\ (0 <= idx /\ idx < capacity) =>
            /\ hazard' = hazard
            /\ \A a \in BatchArrays : Len(arrays'[a]) = Len(arrays[a])
            /\ \A a \in BatchArrays, i \in 0..(capacity - 1) :
                 arrays'[a][i + 1] =
                   IF a \in ElementArrays /\ i = idx THEN bev'.value
                   ELSE arrays[a][i + 1]]_vars

\* the last call had index = capacity, after a call that wrote a slot
C17_Witness ==
  /\ bev.op = "set"
  /\ bev.idx = capacity
  /\ capacity > 0
  /\ wrote # {}
  /\ hazard = {}

\* ------------------------------------------------------------------------
\* C18: one call of sgp4_batch_propagate_step processes each index in
\* [0, count) exactly once, in every build: the vector loop covers the
\* first floor(count/width)*width indices, the scalar loop the remainder,
\* and no output slot at an index >= count is written.  The scalar build
\* has no vector loop; there the split is not asked for.
\* ------------------------------------------------------------------------
C18_ExactlyOnce ==
  pstep.done =>
    /\ \A i \in 0..(capacity - 1) : pstep.times[i + 1] = (IF i < count THEN 1 ELSE 0)
    /\ pstep.vector \cap pstep.scalar = {}
    /\ pstep.vector \cup pstep.scalar = 0..(count - 1)

C18_VectorThenScalar ==
  pstep.done =>
    /\ C18_ExactlyOnce
    /\ build # "scalar" =>
         pstep.vector = 0..((count \div SIMD_WIDTH(build)) * SIMD_WIDTH(build) - 1)

\* ------------------------------------------------------------------------
\* C19: releasing a batch frees each owned array exactly once, and release
\* of a null batch or of a batch already released is a no-op: no array is
\* ever freed twice and no freed memory is read
\* ------------------------------------------------------------------------
C19_ReleaseOnce ==
  /\ \A b \in Blocks : frees[b] <= 1
  /\ "read-freed" \notin hazard
  /\ batch = "released" => \A b \in BatchArrays : frees[b] = 1
  /\ batchResult = "released" => \A b \in ResultArrays : frees[b] = 1

\* ------------------------------------------------------------------------
\* The busy flag of the workers the pool holds
\* ------------------------------------------------------------------------
\* the step passed a task to postMessage of worker w
PostsTo(w) == \E i \in DOMAIN ev'.posted : ev'.posted[i].worker = w

\* the step handled a 'propagate-result' or 'error' message of worker w for
\* a pending task that had been posted to w
AnswersTaskOf(w) ==
  /\ ev'.op = "handleMessage"
  /\ ev'.worker = w
  /\ ev'.msg.type \in {"propagate-result", "error"}
  /\ postedTo[ev'.call] = w
  /\ ev'.msg.taskId = taskIdOf[ev'.call]

\* C21 (as claimed): the busy flag of a worker of the pool is set only by a
\* step that posts a task to it, and is cleared only by the handling of a
\* propagate-result or error message of that worker for a task posted to
\* it; no other event returns a busy worker to ready.
C21_BusyFlag_Claimed ==
  [][ \A w \in Range(workers) \cap Range(workers') :
        /\ (~busy[w] /\ busy'[w]) => PostsTo(w)
        /\ (busy[w] /\ ~busy'[w]) => AnswersTaskOf(w) ]_vars

\* C21 (amended): the same, where a busy worker is also returned to ready by
\* its own 'error' event.
C21_BusyFlag ==
  [][ \A w \in Range(workers) \cap Range(workers') :
        /\ (~busy[w] /\ busy'[w]) => PostsTo(w)
        /\ (busy[w] /\ ~busy'[w]) =>
             \/ AnswersTaskOf(w)
             \/ ev'.op = "handleWorkerError" /\ ev'.worker = w ]_vars

\* a busy worker was returned to ready by the message for its task, and
\* another by its 'error' event
C21_Witness ==
  /\ ev.op = "handleMessage"
  /\ ev.worker \in Range(workers)
  /\ postedTo[ev.call] = ev.worker
  /\ ~busy[ev.worker]
  /\ \E x \in Range(workers) : wstate[x] = "crashed" /\ ~busy[x]

\* ------------------------------------------------------------------------
\* The worker 'error' event
\* ------------------------------------------------------------------------
\* calls the pool holds as pending on worker w
PendingOn(w) ==
  {c \in Calls : /\ future[c] = "pending"
                 /\ postedTo[c] = w
                 /\ taskIdOf[c] \in DOMAIN pendingTasks
                 /\ pendingTasks[taskIdOf[c]] = c}

\* what the claim says of the handling of an 'error' event of ev'.worker
ErrorEventStep_Claimed ==
  LET w == ev'.worker IN
  /\ IF taskQueue = <<>>
     THEN ~busy'[w] /\ ev'.posted = <<>> /\ taskQueue' = taskQueue
     ELSE /\ taskQueue' = Tail(taskQueue)
          /\ Len(ev'.posted) = 1
          /\ ev'.posted[1].call = Head(taskQueue)
          /\ busy'[ev'.posted[1].worker]
          /\ (ev'.posted[1].worker # w => ~busy'[w])
  /\ \A c \in PendingOn(w) :
       /\ taskIdOf[c] \in DOMAIN pendingTasks'
       /\ pendingTasks'[taskIdOf[c]] = c
       /\ future'[c] = "pending"
  /\ ev'.settled = {}
  /\ future' = future

\* the first worker of the workers array that is not busy once w is marked
\* not busy (0: there is none, the array does not hold w)
AvailableAfterError(w) == FindAvailable(workers, [busy EXCEPT ![w] = FALSE])

\* the same, where the queue head is dispatched if the workers array holds a
\* worker that is not busy
ErrorEventStep ==
  LET w == ev'.worker IN
  /\ IF taskQueue = <<>> \/ AvailableAfterError(w) = 0
     THEN ~busy'[w] /\ ev'.posted = <<>> /\ taskQueue' = taskQueue
     ELSE /\ taskQueue' = Tail(taskQueue)
          /\ ev'.posted = <<[call |-> Head(taskQueue), worker |-> AvailableAfterError(w)]>>
          /\ busy'[AvailableAfterError(w)]
          /\ (AvailableAfterError(w) # w => ~busy'[w])
  /\ (w \in Range(workers) => AvailableAfterError(w) # 0)
  /\ \A c \in PendingOn(w) :
       /\ taskIdOf[c] \in DOMAIN pendingTasks'
       /\ pendingTasks'[taskIdOf[c]] = c
       /\ future'[c] = "pending"
  /\ ev'.settled = {}
  /\ future' = future

\* the step leaves the future of call c as it is and posts c to no worker
LeftAlone(c) ==
  /\ future'[c] = future[c]
  /\ c \notin ev'.settled
  /\ \A i \in DOMAIN ev'.posted : ev'.posted[i].call # c

\* calls pending on a worker that has raised its 'error' event
OnCrashed == {c \in Calls : postedTo[c] # 0 /\ c \in PendingOn(postedTo[c])
                            /\ wstate[postedTo[c]] = "crashed"}

\* those of them that the worker had not answered when it died
Unanswered == {c \in OnCrashed : taskIdOf[c] \notin Range(outbox[postedTo[c]])}

\* C22 (as claimed): on a worker 'error' event the pool marks the worker not
\* busy and dispatches the queue head, if any; the tasks pending on that
\* worker stay in the pending map with their futures unsettled; from then on
\* the pool never settles such a future and never posts the task again.
C22_WorkerError_Claimed ==
  [][ /\ (ev'.op = "handleWorkerError" => ErrorEventStep_Claimed)
      /\ \A c \in OnCrashed : LeftAlone(c) ]_vars

\* C22 (amended): the queue head is dispatched if the workers array holds a
\* worker that is not busy, which it does whenever it holds the failed
\* worker; "never settled, never posted again" is said of the tasks the
\* worker had not answered before it died.
C22_WorkerError ==
  [][ /\ (ev'.op = "handleWorkerError" => ErrorEventStep)
      /\ \A c \in Unanswered : LeftAlone(c) ]_vars

\* the error event of a worker holding an unanswered task was handled, the
\* queue head went to that worker, and the held task is pending
C22_Witness ==
  /\ ev.op = "handleWorkerError"
  /\ ev.posted # <<>>
  /\ Unanswered # {}
  /\ \E c \in Unanswered : ev.posted[1].call # c /\ postedTo[c] = ev.worker

\* ------------------------------------------------------------------------
\* C25: in every reachable state of an initialized pool a non-empty task
\* queue implies that every worker of the pool is marked busy (no task
\* waits while a worker is idle), after any interleaving of propagate()
\* calls, result and error messages, and worker 'error' events: in every run
\* where the pool is not initialized a second time around a shutdown().
\* ------------------------------------------------------------------------
QueuedImpliesAllBusy ==
  (initialized /\ taskQueue # <<>>) => \A w \in Range(workers) : busy[w]

C26_AtMostPoolSizeWorkers ==
  /\ Len(workers) <= poolSize
  /\ stats.busyWorkers <= stats.poolSize
  /\ stats.availableWorkers >= 0

\* the first conjunct alone
C26_WorkersArrayBound == Len(workers) <= poolSize

\* the bounds on the reported numbers alone
C26_StatsBound == stats.busyWorkers <= stats.poolSize /\ stats.availableWorkers >= 0

\* ------------------------------------------------------------------------
\* Tasks in flight across shutdown()
\* ------------------------------------------------------------------------
\* calls posted to a worker whose promise is not settled
InFlight == {c \in Calls : postedTo[c] # 0 /\ future[c] = "pending"}

\* in-flight calls whose pending entry is gone
Discarded == {c \in InFlight : taskIdOf[c] \notin DOMAIN pendingTasks}

\* the step settles call c by handling a message of the worker c was posted
\* to that carries c's taskId
SettledByOwnMessage(c) ==
  /\ ev'.op = "handleMessage"
  /\ ev'.call = c
  /\ ev'.worker = postedTo[c]
  /\ ev'.msg.taskId = taskIdOf[c]

\* C24: a task in flight when shutdown() is called is not rejected by
\* shutdown(): neither the part before the await nor the continuation
\* settles it.  While the workers terminate it is settled only by the
\* handling of its own worker's message for it; if none is handled, the
\* continuation discards its pending entry and from then on its future
\* stays unsettled forever.
C24_InFlightAcrossShutdown ==
  [][ \A c \in InFlight :
        /\ ev'.op \in {"shutdown", "shutdownComplete"} =>
             future'[c] = "pending" /\ c \notin ev'.settled
        /\ ev'.op = "shutdownComplete" => c \in Discarded'
        /\ shut = "terminating" /\ future'[c] # "pending" => SettledByOwnMessage(c)
        /\ c \in Discarded => c \in Discarded' ]_vars

\* shutdown() has completed; a task that was in flight during it has lost its
\* pending entry and is unsettled, another posted task is settled
C24_Witness ==
  /\ ev.op = "shutdownComplete"
  /\ Discarded # {}
  /\ \E c \in Calls : postedTo[c] # 0 /\ future[c] = "settled"

\* ------------------------------------------------------------------------
\* propagate() while shutdown() awaits the termination of the workers
\* ------------------------------------------------------------------------
\* the pool stays initialized while shutdown() awaits
WindowStaysInitialized ==
  (shut = "terminating" /\ initialized /\ shut' = "terminating") => initialized'

\* a propagate() call accepted in the window is queued, the queue holding
\* nothing but calls of the window, or posted to a worker being terminated
WindowPropagateStep ==
  (ev'.op = "propagate" /\ shut = "terminating") =>
     /\ initialized
     /\ ev'.call \in acceptedInWindow'
     /\ \/ /\ ev'.posted = <<>>
           /\ taskQueue' = Append(taskQueue, ev'.call)
           /\ Range(taskQueue) \subseteq acceptedInWindow
        \/ /\ Len(ev'.posted) = 1
           /\ ev'.posted[1].call = ev'.call
           /\ ev'.posted[1].worker \in shutWorkers

NoInitSinceShutdown == Range(workers) \subseteq shutWorkers

\* the amended step: the worker is one of the workers array, a terminating
\* one unless initialize() added workers during the await
WindowPropagateStepInit ==
  (ev'.op = "propagate" /\ shut = "terminating") =>
     /\ initialized
     /\ ev'.call \in acceptedInWindow'
     /\ \/ /\ ev'.posted = <<>>
           /\ taskQueue' = Append(taskQueue, ev'.call)
           /\ Range(taskQueue) \subseteq acceptedInWindow
        \/ /\ Len(ev'.posted) = 1
           /\ ev'.posted[1].call = ev'.call
           /\ ev'.posted[1].worker \in Range(workers)
           /\ NoInitSinceShutdown => ev'.posted[1].worker \in shutWorkers

C27_QueuedSettledLater ==
  \E c \in acceptedInWindow :
     /\ future[c] = "settled"
     /\ postedTo[c] \notin shutWorkers
     /\ shut = "idle"
     /\ \E d \in Calls \ acceptedInWindow : d > c /\ future[d] = "settled"

\* ------------------------------------------------------------------------
\* C23: when an allocation inside sgp4_batch_alloc or sgp4_result_alloc
\* fails (the struct or one of the arrays), the call returns a null handle:
\* the caller is never handed a store of which an array is missing, and no
\* store is written through an array pointer whose allocation failed.
\* ------------------------------------------------------------------------
C23_AllocFailureReturnsNull ==
  /\ batchResult # "partial"
  /\ "null-write" \notin hazard

\* ------------------------------------------------------------------------
\* The range loop of the WASM worker and the task that runs it
\* ------------------------------------------------------------------------
\* the loop is at a time from which et <= etf stays true for ever: the next
\* et is not above this one
Diverges ==
  /\ rpc = "loop"
  /\ et <= times.etf
  /\ fadd(et, times.step) <= et

\* the task of the WASM worker, with finite et0 <= etf
WasmTask == variant = "wasm" /\ times.et0 <= times.etf

\* the pool has handled no reply of the worker for the task
NoReply == future[1] = "pending" /\ settleCalls[1] = 0 /\ FirstUUID \in DOMAIN pendingTasks

\* C28 (as claimed): given finite et0 <= etf, the range loop of the WASM
\* worker terminates exactly when step > 0: with step > 0 it never reaches a
\* time from which it cannot leave, with step <= 0 it never ends; a task
\* with step <= 0 never produces a reply, keeps its worker busy for ever,
\* and its future never settles.
C28_LoopTermination_Claimed ==
  WasmTask =>
    /\ times.step > 0 => ~Diverges
    /\ times.step <= 0 => /\ rpc # "done"
                          /\ NoReply
                          /\ busy[1]

\* C28 (amended): with step <= 0 the loop never ends, and with step > 0 it
\* fails to end only by reaching a time et that et + step rounds back to.
\* No reply is handled while the task is before or in its loop; the worker
\* is busy as long as its thread lives; the thread dies only of a loop that
\* cannot end, when the states exhaust its memory, and then the pool marks
\* the worker not busy on its 'error' event and settles nothing.
C28_LoopTermination ==
  WasmTask =>
    /\ times.step <= 0 => rpc # "done"
    /\ (times.step > 0 /\ Diverges) => fadd(et, times.step) = et
    /\ rpc \in {"start", "loop"} => NoReply
    /\ wstate[1] = "ready" /\ rpc \in {"start", "loop"} => busy[1]
    /\ wstate[1] = "crashed" => /\ Diverges
                                /\ Len(states) = MaxStates
                                /\ ~busy[1]
                                /\ NoReply

\* a task with step <= 0 has run until the memory of its thread was
\* exhausted: the worker is not busy, the future is pending
C28_Witness ==
  /\ WasmTask
  /\ times.step <= 0
  /\ wstate[1] = "crashed"
  /\ ev.op = "handleWorkerError"
  /\ ~busy[1]
  /\ future[1] = "pending"

\* a loop with step > 0 that cannot end: et + step rounds to et
C28_Absorbed ==
  /\ WasmTask
  /\ times.step > 0
  /\ Diverges
  /\ Len(states) > 2


\* ------------------------------------------------------------------------
\* C29: for a propagate task it received, a worker posts at most one reply,
\* and the reply (propagate-result or error) carries the taskId of that task;
\* no reply carries the taskId of a task the worker did not receive.
\* ------------------------------------------------------------------------
\* this step is the pool taking a reply of the worker off the port
IsTaskReply ==
  /\ ev' # ev
  /\ ev'.op \in {"handleMessage", "handleMessage-ignored"}
  /\ ev'.msg.type \in {"propagate-result", "error"}

C29_OneReplyPerTask ==
  [][ /\ IsTaskReply =>
           /\ ev'.worker = 1
           /\ TaskRunning
           /\ ev'.msg.taskId = Head(inbox[1])
           /\ ev'.msg.taskId = taskIdOf[1]
           /\ postedTo[1] = 1
           /\ inbox'[1] = Tail(inbox[1])
           /\ ev'.op = "handleMessage"
           /\ ev'.call = 1
           /\ settleCalls[1] = 0
      /\ settleCalls'[1] <= 1
      /\ rpc \in {"done", "caught"} /\ rpc' = rpc => IsTaskReply ]_vars

\* an error reply of the WASM worker whose loop threw after it had pushed
\* states, handled by the pool
C29_Witness ==
  /\ variant = "wasm"
  /\ rpc = "caught"
  /\ Len(states) > 0
  /\ inbox[1] = <<>>
  /\ ev.op = "handleMessage"
  /\ ev.msg = [type |-> "error", taskId |-> FirstUUID]
  /\ settleCalls[1] = 1

\* a result reply of the native worker, handled by the pool
C29_NativeResult ==
  /\ variant = "native"
  /\ rpc = "done"
  /\ inbox[1] = <<>>
  /\ ev.op = "handleMessage"
  /\ ev.msg = [type |-> "propagate-result", taskId |-> FirstUUID]
  /\ settleCalls[1] = 1


\* ------------------------------------------------------------------------
\* C30: for the same (et0, etf, step) the WASM worker and the native worker
\* return the same number of states with the same timestamps, for all
\* inputs, including etf < et0.
\* ------------------------------------------------------------------------
\* the loop of worker.ts ends on the times t before the states array is full
WasmEnds(t) == Len(WasmRange(t, t.et0, <<>>)) < MaxStates

\* the states an engine has returned are the states the other engine returns
\* for the same times (for step = 0: under some outcome of the conversion)
C30_EnginesAgree ==
  rpc = "done" =>
     /\ variant = "wasm" => \E n \in NativeSteps(times) : states = NativeRange(times, n)
     /\ variant = "native" /\ WasmEnds(times) => states = WasmRange(times, times.et0, <<>>)

\* etf < et0 with step > 0: the native worker has returned one state, at et0,
\* where the WASM worker returns none
C30_ReversedRange ==
  /\ variant = "native"
  /\ rpc = "done"
  /\ times.etf < times.et0
  /\ times.step > 0
  /\ states = <<times.et0>>
  /\ WasmRange(times, times.et0, <<>>) = <<>>

\* et0 <= etf with step > 0: the two engines return different numbers of states
C30_ForwardRange ==
  /\ variant = "wasm"
  /\ rpc = "done"
  /\ times.et0 <= times.etf
  /\ times.step > 0
  /\ \A n \in NativeSteps(times) : Len(states) # n

====
